---------------------------- MODULE Spec2Model ----------------------------
(***************************************************************************)
(* A model of flowstate_cli: the local record store and the three data     *)
(* managers (data_manager.py), the remote client (api.py), the push-only   *)
(* sync engine (sync_engine.py) and the file-backed timer daemon           *)
(* (daemon.py, daemon_runner.py).                                          *)
(*                                                                         *)
(* Every CLI command is a process of its own.  What a command reads from   *)
(* config.json and auth.json at its start (the operating mode, the remote  *)
(* auth token, the local user id) is an input of the command: mode set,    *)
(* auth token, local-login and logout rewrite those files between any two  *)
(* commands.  The record store (tasks, pomodoros) and the timer state file *)
(* are the state that commands share.                                      *)
(***************************************************************************)
EXTENDS Integers, Sequences, FiniteSets, TLC

(***************************************************************************)
(* Bounds of the model.                                                    *)
(***************************************************************************)
MaxRows == 2
\* rows of the record store: tasks and pomodoros together

MaxClock == 9
\* the wall clock stops here, in clock units

ClockRes == 2
\* clock units per second: time.time() is finer than the whole seconds that
\* int(elapsed) keeps

SecondsPerMinute == 2
\* 60 in daemon.py; scaled down so that a countdown ends within MaxClock

MaxMinutes == 2
\* start_timer is called with 1..MaxMinutes minutes

MaxDaemonClock == 6
\* the last clock value of the runs that follow the daemon step by step

RemoteIdBase == 10
\* remote identifiers are RemoteIdBase+1.., so that they differ from local ids

None == 0
\* Python's None / SQL NULL in an integer column (ids start at 1)

Users == {"u1", "u2"}
\* users.id values: the default local user and a registered one

Descriptions == {"d"}

SessionTypes == {"focus"}

Durations == {25}

\* The identifiers the remote service answers.  The client only stores an
\* identifier and tests it for truthiness, so one positive value stands for all.
RemoteIds == {RemoteIdBase + 1}

VARIABLES
    tasks,      \* the tasks table: id -> row
    poms,       \* the pomodoros table: id -> row
    last,       \* the last command: what was called, what it returned or raised,
                \* and the remote calls it issued
    acct,       \* the users table, config local_user_id and the user id the
                \* running process holds
    now,        \* wall clock, in clock units (ClockRes units per second)
    tfile,      \* ~/.flowstate/timer_state.json
    dmn,        \* the daemon: its pid file, its process and its TimerDaemon fields
    tlast,      \* the last timer command and its result
    pz          \* bookkeeping: the start, last pause and resume of the countdown

dvars == <<tasks, poms, last, acct>>
tvars == <<now, tfile, dmn, tlast, pz>>
vars == <<tasks, poms, last, acct, now, tfile, dmn, tlast, pz>>

(***************************************************************************)
(* Helpers.                                                                *)
(***************************************************************************)
Max(S) == CHOOSE x \in S : \A y \in S : y <= x

Min(S) == CHOOSE x \in S : \A y \in S : x <= y

RECURSIVE SortAsc(_)
SortAsc(S) == IF S = {} THEN <<>> ELSE <<Min(S)>> \o SortAsc(S \ {Min(S)})

RECURSIVE SortDesc(_)
SortDesc(S) == IF S = {} THEN <<>> ELSE <<Max(S)>> \o SortDesc(S \ {Max(S)})

Range(s) == {s[i] : i \in 1..Len(s)}

\* SQLite INTEGER PRIMARY KEY without AUTOINCREMENT: max(rowid) + 1
NextId(ids) == IF ids = {} THEN 1 ELSE Max(ids) + 1

(***************************************************************************)
(* local_db.py: rows.  ncreate is bookkeeping: the number of remote create *)
(* calls that succeeded for the row.  last_synced_at is NULL (FALSE) or a  *)
(* timestamp (TRUE).                                                       *)
(***************************************************************************)
LocalTask(u, d) ==
    [user_id |-> u, description |-> d, is_completed |-> FALSE,
     is_active |-> FALSE, completed_at |-> FALSE, needs_sync |-> TRUE,
     cloud_task_id |-> None, last_synced_at |-> FALSE, ncreate |-> 0]

LocalPomodoro(u, tid, st, dur) ==
    [user_id |-> u, task_id |-> tid, session_type |-> st,
     duration_minutes |-> dur, completed |-> FALSE, completed_at |-> FALSE,
     needs_sync |-> TRUE, cloud_pomodoro_id |-> None, last_synced_at |-> FALSE, ncreate |-> 0,
     rcomplete |-> FALSE]

_task_to_dict(id, t) ==
    [id |-> id, description |-> t.description,
     is_completed |-> t.is_completed, is_active |-> t.is_active]

_pomodoro_to_dict(id, p) ==
    [id |-> id, task_id |-> p.task_id, session_type |-> p.session_type,
     duration_minutes |-> p.duration_minutes, completed |-> p.completed]

\* What an operation gives back: the tables after it, the value returned
\* (a sequence of dicts; <<>> is None or the empty list) and what it raised.
Ret(T, P, res) == [tasks |-> T, poms |-> P, res |-> res, raised |-> ""]

Raise(T, P, what) == [tasks |-> T, poms |-> P, res |-> <<>>, raised |-> what]

(***************************************************************************)
(* data_manager.py: LocalDataManager.  u is the user id _ensure_user       *)
(* resolves.  An operation that raises leaves its session uncommitted:     *)
(* closing the session rolls the tables back.                              *)
(***************************************************************************)
Owned(T, u, id) == id \in DOMAIN T /\ T[id].user_id = u

ActiveOf(T, u) == {id \in DOMAIN T : T[id].user_id = u /\ T[id].is_active}

L_get_current_user(T, P, u) == Ret(T, P, <<[id |-> u]>>)

\* get_tasks that lists completed tasks whatever include_completed says
L_get_tasks_unfiltered(T, P, u, include_completed) ==
    LET sel == {id \in DOMAIN T : T[id].user_id = u}
        ord == SortDesc(sel)
    IN  Ret(T, P, [i \in 1..Len(ord) |-> _task_to_dict(ord[i], T[ord[i]])])

L_get_tasks(T, P, u, include_completed) ==
    LET sel == {id \in DOMAIN T :
                   /\ T[id].user_id = u
                   /\ (include_completed \/ ~T[id].is_completed)}
        ord == SortDesc(sel)
    IN  Ret(T, P, [i \in 1..Len(ord) |-> _task_to_dict(ord[i], T[ord[i]])])

L_create_task(T, P, u, d) ==
    LET id == NextId(DOMAIN T)
        T1 == [i \in DOMAIN T \cup {id} |->
                  IF i = id THEN LocalTask(u, d) ELSE T[i]]
    IN  Ret(T1, P, <<_task_to_dict(id, T1[id])>>)

\* start_task without its UPDATE
DeactivatedNone(T, u) == T

\* the UPDATE of start_task: every active task of the user
Deactivated(T, u) ==
    [i \in DOMAIN T |->
        IF T[i].user_id = u /\ T[i].is_active
        THEN [T[i] EXCEPT !.is_active = FALSE, !.needs_sync = TRUE]
        ELSE T[i]]

\* start_task whose UPDATE outlives the exception
L_start_task_update_kept(T, P, u, task_id) ==
    LET T1 == Deactivated(T, u)
    IN  IF ~Owned(T1, u, task_id)
        THEN Raise(T1, P, "Task not found")
        ELSE LET T2 == [T1 EXCEPT ![task_id].is_active = TRUE,
                                  ![task_id].needs_sync = TRUE]
             IN  Ret(T2, P, <<_task_to_dict(task_id, T2[task_id])>>)

L_start_task(T, P, u, task_id) ==
    LET T1 == Deactivated(T, u)
    IN  IF ~Owned(T1, u, task_id)
        THEN Raise(T, P, "Task not found")
        ELSE LET T2 == [T1 EXCEPT ![task_id].is_active = TRUE,
                                  ![task_id].needs_sync = TRUE]
             IN  Ret(T2, P, <<_task_to_dict(task_id, T2[task_id])>>)

\* complete_task that leaves needs_sync as it was
L_complete_task_unflagged(T, P, u, task_id) ==
    IF ~Owned(T, u, task_id)
    THEN Raise(T, P, "Task not found")
    ELSE LET T1 == [T EXCEPT ![task_id].is_completed = TRUE,
                             ![task_id].is_active = FALSE,
                             ![task_id].completed_at = TRUE]
         IN  Ret(T1, P, <<_task_to_dict(task_id, T1[task_id])>>)

L_complete_task(T, P, u, task_id) ==
    IF ~Owned(T, u, task_id)
    THEN Raise(T, P, "Task not found")
    ELSE LET T1 == [T EXCEPT ![task_id].is_completed = TRUE,
                             ![task_id].is_active = FALSE,
                             ![task_id].completed_at = TRUE,
                             ![task_id].needs_sync = TRUE]
         IN  Ret(T1, P, <<_task_to_dict(task_id, T1[task_id])>>)

L_delete_task(T, P, u, task_id) ==
    IF ~Owned(T, u, task_id)
    THEN Raise(T, P, "Task not found")
    ELSE Ret([i \in DOMAIN T \ {task_id} |-> T[i]], P,
             <<_task_to_dict(task_id, T[task_id])>>)

\* .first() of an unordered query: SQLite answers in rowid order
L_get_active_task(T, P, u) ==
    LET act == ActiveOf(T, u)
    IN  IF act = {} THEN Ret(T, P, <<>>)
        ELSE Ret(T, P, <<_task_to_dict(Min(act), T[Min(act)])>>)

L_start_pomodoro(T, P, u, task_id, session_type, duration) ==
    LET id == NextId(DOMAIN P)
        P1 == [i \in DOMAIN P \cup {id} |->
                  IF i = id
                  THEN LocalPomodoro(u, task_id, session_type, duration)
                  ELSE P[i]]
    IN  Ret(T, P1, <<_pomodoro_to_dict(id, P1[id])>>)

L_complete_pomodoro(T, P, u, pomodoro_id) ==
    IF ~(pomodoro_id \in DOMAIN P /\ P[pomodoro_id].user_id = u)
    THEN Raise(T, P, "Pomodoro not found")
    ELSE LET P1 == [P EXCEPT ![pomodoro_id].completed = TRUE,
                             ![pomodoro_id].completed_at = TRUE,
                             ![pomodoro_id].needs_sync = TRUE]
         IN  Ret(T, P1, <<_pomodoro_to_dict(pomodoro_id, P1[pomodoro_id])>>)

(***************************************************************************)
(* A call of the DataManager interface: the operation and its arguments.   *)
(***************************************************************************)
TaskIdArgs == 1 .. MaxRows
\* every id a row can have; an id is of no row until the row is created

PomIdArgs == 1 .. MaxRows

PomTaskArgs == {None, 1}
\* pom start passes the id of the active task, or None

Calls ==
    {[op |-> "get_current_user"], [op |-> "get_active_task"]}
    \cup {[op |-> "get_tasks", include_completed |-> b] : b \in BOOLEAN}
    \cup {[op |-> "create_task", description |-> d] : d \in Descriptions}
    \cup {[op |-> o, task_id |-> t] :
            o \in {"start_task", "complete_task", "delete_task"},
            t \in TaskIdArgs}
    \cup {[op |-> "start_pomodoro", task_id |-> t, session_type |-> s,
           duration |-> m] :
            t \in PomTaskArgs, s \in SessionTypes, m \in Durations}
    \cup {[op |-> "complete_pomodoro", pomodoro_id |-> p] : p \in PomIdArgs}

LocalCall(T, P, u, c) ==
    CASE c.op = "get_current_user" -> L_get_current_user(T, P, u)
      [] c.op = "get_tasks" -> L_get_tasks(T, P, u, c.include_completed)
      [] c.op = "create_task" -> L_create_task(T, P, u, c.description)
      [] c.op = "start_task" -> L_start_task(T, P, u, c.task_id)
      [] c.op = "complete_task" -> L_complete_task(T, P, u, c.task_id)
      [] c.op = "delete_task" -> L_delete_task(T, P, u, c.task_id)
      [] c.op = "get_active_task" -> L_get_active_task(T, P, u)
      [] c.op = "start_pomodoro" ->
            L_start_pomodoro(T, P, u, c.task_id, c.session_type, c.duration)
      [] c.op = "complete_pomodoro" ->
            L_complete_pomodoro(T, P, u, c.pomodoro_id)

(***************************************************************************)
(* api.py: FlowStateAPI.  The remote service is not part of the            *)
(* repository: what it answers a request and which identifier a create     *)
(* answers are inputs.  _request raises on a transport error, on 401 and,  *)
(* by raise_for_status, on every other non-2xx status, 404 among them.     *)
(***************************************************************************)
\* "failed": no answer, 401 or a 5xx; "not_found": 404 for the id of the call
RemoteAnswers == {"ok", "failed", "not_found"}

A_request(c, answer) ==
    IF answer = "ok" THEN [res |-> <<[remote |-> c.op]>>, raised |-> ""]
    ELSE IF answer = "not_found" THEN [res |-> <<>>, raised |-> "HTTP 404"]
    ELSE [res |-> <<>>, raised |-> "remote error"]

\* get_active_task catches every exception of its request and answers None
A_get_active_task(c, answer) ==
    IF A_request(c, answer).raised = "" THEN A_request(c, answer)
    ELSE [res |-> <<>>, raised |-> ""]

(***************************************************************************)
(* data_manager.py: CloudDataManager proxies every operation to the API.   *)
(***************************************************************************)
CloudCall(c, answer) ==
    IF c.op = "get_active_task" THEN A_get_active_task(c, answer)
    ELSE A_request(c, answer)

(***************************************************************************)
(* config.py: Config.check_connectivity.  net is what the GET of the API   *)
(* root meets: status 200, another status, or an error or timeout of the   *)
(* client, which the except clause turns into False.                       *)
(***************************************************************************)
ProbeAnswers == {"200", "other status", "error"}

check_connectivity(net) == net = "200"

(***************************************************************************)
(* config.py: Config.should_use_cloud.  probe is the answer of             *)
(* check_connectivity, called in the last branch only; probes counts the   *)
(* calls of check_connectivity the answer took.                            *)
(***************************************************************************)
Modes == {"local", "cloud", "hybrid"}

\* should_use_cloud that asks the probe in cloud mode too
should_use_cloud_probe_unless_local(mode, probe) ==
    IF mode = "local" THEN [use |-> FALSE, probes |-> 0]
    ELSE [use |-> probe, probes |-> 1]

should_use_cloud(mode, probe) ==
    IF mode = "local" THEN [use |-> FALSE, probes |-> 0]
    ELSE IF mode = "cloud" THEN [use |-> TRUE, probes |-> 0]
    ELSE [use |-> probe, probes |-> 1]

(***************************************************************************)
(* data_manager.py: HybridDataManager._try_cloud_fallback_local.  The      *)
(* answer names the backend that produced it (via), what became of the     *)
(* remote request (remote) and the backend calls made, in order (steps).   *)
(***************************************************************************)
Via(r, via, remote, steps) ==
    [tasks |-> r.tasks, poms |-> r.poms, res |-> r.res, raised |-> r.raised,
     via |-> via, remote |-> remote, steps |-> steps]

RemoteOutcome(answer) == answer

\* a fallback that runs the local operation after a cloud success as well
_try_cloud_fallback_local_then_local(T, P, u, c, mode, probe, answer) ==
    IF should_use_cloud(mode, probe).use
    THEN Via([LocalCall(T, P, u, c) EXCEPT !.res = CloudCall(c, answer).res,
                                           !.raised = CloudCall(c, answer).raised],
             "cloud", RemoteOutcome(answer), <<"cloud", "local">>)
    ELSE Via(LocalCall(T, P, u, c), "local", "not called", <<"local">>)

_try_cloud_fallback_local(T, P, u, c, mode, probe, answer) ==
    IF should_use_cloud(mode, probe).use
    THEN IF CloudCall(c, answer).raised = ""
         THEN Via(Ret(T, P, CloudCall(c, answer).res), "cloud",
                  RemoteOutcome(answer), <<"cloud">>)
         ELSE Via(LocalCall(T, P, u, c), "local", RemoteOutcome(answer),
                  <<"cloud", "local">>)
    ELSE Via(LocalCall(T, P, u, c), "local", "not called", <<"local">>)

\* get_data_manager: the manager the configured mode selects
DataManagerCall(T, P, u, c, mode, probe, answer) ==
    CASE mode = "local" ->
            Via(LocalCall(T, P, u, c), "local", "not called", <<"local">>)
      [] mode = "cloud" ->
            Via([tasks |-> T, poms |-> P, res |-> CloudCall(c, answer).res,
                 raised |-> CloudCall(c, answer).raised],
                "cloud", RemoteOutcome(answer), <<"cloud">>)
      [] mode = "hybrid" -> _try_cloud_fallback_local(T, P, u, c, mode, probe, answer)

(***************************************************************************)
(* sync_engine.py: SyncEngine.  u is config.get_local_user_id().  The      *)
(* inputs of one run: tfail, the tasks whose remote creation fails; pout,  *)
(* what becomes of each pomodoro's remote requests; trid and prid, the     *)
(* identifiers the remote service answers.  Rows are visited in rowid      *)
(* order; the mutations of an entity type are committed after its loop.    *)
(***************************************************************************)
PomOutcomes == {"ok", "create_fails", "complete_fails"}

\* a marking that stamps the completion time of the row as well
MarkSynced_stamped(row) ==
    [row EXCEPT !.needs_sync = FALSE, !.last_synced_at = TRUE,
                !.completed_at = TRUE]

\* "Mark as synced": the two assignments that end the pass over a row
MarkSynced(row) == [row EXCEPT !.needs_sync = FALSE, !.last_synced_at = TRUE]

\* the selection without its needs_sync filter
PendingTasksAll(T, u) == {id \in DOMAIN T : T[id].user_id = u}

PendingTasks(T, u) == {id \in DOMAIN T : T[id].user_id = u /\ T[id].needs_sync}

\* the loop issuing the remote create whether or not cloud_task_id is set
ToCreateTasksAny(T, u) == PendingTasks(T, u)

\* rows for which the loop issues the remote create: no cloud_task_id yet
ToCreateTasks(T, u) == {id \in PendingTasks(T, u) : T[id].cloud_task_id = None}

FailedTasks(T, u, tfail) == ToCreateTasks(T, u) \cap tfail

\* a loop that marks the rows whose creation failed as synced too
SyncedTasksAll(T, u, tfail) == PendingTasks(T, u)

SyncedTasks(T, u, tfail) == PendingTasks(T, u) \ FailedTasks(T, u, tfail)

_sync_tasks_to_cloud(T, u, tfail, trid) ==
    LET created == ToCreateTasks(T, u) \ tfail
        failed == SortAsc(FailedTasks(T, u, tfail))
        tocreate == SortAsc(ToCreateTasks(T, u))
    IN  [tasks |->
            [id \in DOMAIN T |->
                IF id \in SyncedTasks(T, u, tfail)
                THEN MarkSynced(
                        [T[id] EXCEPT
                           !.cloud_task_id = IF id \in created THEN trid[id] ELSE @,
                           !.ncreate = IF id \in created THEN @ + 1 ELSE @])
                ELSE T[id]],
         synced |-> Cardinality(SyncedTasks(T, u, tfail)),
         errors |-> [i \in 1..Len(failed) |-> [entity |-> "Task", id |-> failed[i]]],
         calls |-> [i \in 1..Len(tocreate) |->
                      [api |-> "create_task", id |-> tocreate[i],
                       arg |-> T[tocreate[i]].description,
                       ok |-> tocreate[i] \notin tfail]]]

PendingPoms(P, u) == {id \in DOMAIN P : P[id].user_id = u /\ P[id].needs_sync}

ToCreatePoms(P, u) == {id \in PendingPoms(P, u) : P[id].cloud_pomodoro_id = None}

\* the remote start_pomodoro of the row succeeded
PomCreated(P, u, pout) ==
    {id \in ToCreatePoms(P, u) : pout[id] # "create_fails"}

\* the row raised: its create failed, or the complete call after it did
FailedPoms(P, u, pout) ==
    {id \in ToCreatePoms(P, u) :
        \/ pout[id] = "create_fails"
        \/ pout[id] = "complete_fails" /\ P[id].completed}

\* a loop that marks only the rows it created remotely in this run
SyncedPoms_created(P, u, pout) == ToCreatePoms(P, u) \ FailedPoms(P, u, pout)

SyncedPoms(P, u, pout) == PendingPoms(P, u) \ FailedPoms(P, u, pout)

\* the remote calls of one row with the complete call issued for every row
PomCalls_complete_any(P, id, pout, prid) ==
    <<[api |-> "start_pomodoro", id |-> id, arg |-> P[id].task_id,
       ok |-> pout[id] # "create_fails"]>>
    \o (IF pout[id] # "create_fails"
        THEN <<[api |-> "complete_pomodoro", id |-> id, arg |-> prid[id],
                ok |-> pout[id] = "ok"]>>
        ELSE <<>>)

PomCalls(P, id, pout, prid) ==
    <<[api |-> "start_pomodoro", id |-> id, arg |-> P[id].task_id,
       ok |-> pout[id] # "create_fails"]>>
    \o (IF pout[id] # "create_fails" /\ P[id].completed
        THEN <<[api |-> "complete_pomodoro", id |-> id, arg |-> prid[id],
                ok |-> pout[id] = "ok"]>>
        ELSE <<>>)

RECURSIVE PomCallsOf(_, _, _, _)
PomCallsOf(P, ids, pout, prid) ==
    IF ids = <<>> THEN <<>>
    ELSE PomCalls(P, Head(ids), pout, prid) \o PomCallsOf(P, Tail(ids), pout, prid)

_sync_pomodoros_to_cloud(P, u, pout, prid) ==
    LET created == PomCreated(P, u, pout)
        failed == SortAsc(FailedPoms(P, u, pout))
    IN  [poms |->
            [id \in DOMAIN P |->
                LET p1 == IF id \in created
                          THEN [P[id] EXCEPT
                                  !.cloud_pomodoro_id = prid[id],
                                  !.ncreate = @ + 1,
                                  !.rcomplete = P[id].completed /\ pout[id] = "ok"]
                          ELSE P[id]
                IN  IF id \in SyncedPoms(P, u, pout)
                    THEN MarkSynced(p1)
                    ELSE p1],
         synced |-> Cardinality(SyncedPoms(P, u, pout)),
         errors |-> [i \in 1..Len(failed) |-> [entity |-> "Pomodoro", id |-> failed[i]]],
         calls |-> PomCallsOf(P, SortAsc(ToCreatePoms(P, u)), pout, prid)]

(***************************************************************************)
(* sync_engine.py: the try around each phase.  The local database either   *)
(* works, cannot be opened or read (the phase fails before its loop), or   *)
(* fails at the commit that follows the loop; the session is then closed   *)
(* without a commit, so the rows keep their stored fields, bookkeeping     *)
(* included, while the calls the loop made have reached the remote         *)
(* service.                                                                *)
(***************************************************************************)
DbOutcomes == {"ok", "open_fails", "commit_fails"}

PhaseError(entity) == [entity |-> entity, id |-> None]

TaskPhase(T, u, tfail, trid, db) ==
    LET st == _sync_tasks_to_cloud(T, u, tfail, trid)
    IN  IF db = "ok" THEN st
        ELSE IF db = "open_fails"
        THEN [tasks |-> T, synced |-> 0,
              errors |-> <<PhaseError("Tasks sync")>>, calls |-> <<>>]
        ELSE [tasks |-> T,
              synced |-> st.synced,
              errors |-> st.errors \o <<PhaseError("Tasks sync")>>,
              calls |-> st.calls]

PomPhase(P, u, pout, prid, db) ==
    LET sp == _sync_pomodoros_to_cloud(P, u, pout, prid)
    IN  IF db = "ok" THEN sp
        ELSE IF db = "open_fails"
        THEN [poms |-> P, synced |-> 0,
              errors |-> <<PhaseError("Pomodoros sync")>>, calls |-> <<>>]
        ELSE [poms |-> P,
              synced |-> sp.synced,
              errors |-> sp.errors \o <<PhaseError("Pomodoros sync")>>,
              calls |-> sp.calls]

SyncError(T, P, msg) ==
    [tasks |-> T, poms |-> P, calls |-> <<>>,
     res |-> [error |-> msg, tasks_synced |-> 0, pomodoros_synced |-> 0,
              errors |-> <<>>]]

\* sync_all that looks for the token before it probes the connection
sync_all_token_first(T, P, u, mode, probe, token, tfail, trid, pout, prid, tdb, pdb) ==
    IF mode = "local" THEN SyncError(T, P, "Cannot sync in local-only mode")
    ELSE IF ~token THEN SyncError(T, P, "Not authenticated with cloud")
    ELSE IF ~probe THEN SyncError(T, P, "No internet connection")
    ELSE LET st == TaskPhase(T, u, tfail, trid, tdb)
             sp == PomPhase(P, u, pout, prid, pdb)
         IN  [tasks |-> st.tasks, poms |-> sp.poms,
              calls |-> st.calls \o sp.calls,
              res |-> [error |-> "", tasks_synced |-> st.synced,
                       pomodoros_synced |-> sp.synced,
                       errors |-> st.errors \o sp.errors]]

\* sync_all whose pomodoro phase is left out once the task phase has failed
sync_all_stop_at_failure(T, P, u, mode, probe, token, tfail, trid, pout, prid, tdb, pdb) ==
    IF mode = "local" THEN SyncError(T, P, "Cannot sync in local-only mode")
    ELSE IF ~probe THEN SyncError(T, P, "No internet connection")
    ELSE IF ~token THEN SyncError(T, P, "Not authenticated with cloud")
    ELSE LET st == TaskPhase(T, u, tfail, trid, tdb)
             sp == IF tdb = "ok" THEN PomPhase(P, u, pout, prid, pdb)
                   ELSE [poms |-> P, synced |-> 0, errors |-> <<>>, calls |-> <<>>]
         IN  [tasks |-> st.tasks, poms |-> sp.poms,
              calls |-> st.calls \o sp.calls,
              res |-> [error |-> "", tasks_synced |-> st.synced,
                       pomodoros_synced |-> sp.synced,
                       errors |-> st.errors \o sp.errors]]

sync_all(T, P, u, mode, probe, token, tfail, trid, pout, prid, tdb, pdb) ==
    IF mode = "local" THEN SyncError(T, P, "Cannot sync in local-only mode")
    ELSE IF ~probe THEN SyncError(T, P, "No internet connection")
    ELSE IF ~token THEN SyncError(T, P, "Not authenticated with cloud")
    ELSE LET st == TaskPhase(T, u, tfail, trid, tdb)
             sp == PomPhase(P, u, pout, prid, pdb)
         IN  [tasks |-> st.tasks, poms |-> sp.poms,
              calls |-> st.calls \o sp.calls,
              res |-> [error |-> "", tasks_synced |-> st.synced,
                       pomodoros_synced |-> sp.synced,
                       errors |-> st.errors \o sp.errors]]

(***************************************************************************)
(* auth.py, data_manager.py: the local user.  No local login was made, so  *)
(* local_auth.get_local_user_id() finds no token and a new process starts  *)
(* with current_user_id = None.  SystemUser is getpass.getuser().          *)
(***************************************************************************)
SystemUser == "me"

NoAccount == [users |-> <<>>, local_user_id |-> None, current_user_id |-> None]

UsersNamed(users, username) == {id \in DOMAIN users : users[id] = username}

\* create_local_user that inserts without looking for the username
create_local_user_anew(users, username) ==
    [users |-> [i \in DOMAIN users \cup {NextId(DOMAIN users)} |->
                  IF i \in DOMAIN users THEN users[i] ELSE username],
     id |-> NextId(DOMAIN users)]

\* create_local_user: the user of that name if there is one (.first()),
\* else a new row
create_local_user(users, username) ==
    IF UsersNamed(users, username) # {}
    THEN [users |-> users, id |-> Min(UsersNamed(users, username))]
    ELSE [users |-> [i \in DOMAIN users \cup {NextId(DOMAIN users)} |->
                       IF i \in DOMAIN users THEN users[i] ELSE username],
          id |-> NextId(DOMAIN users)]

\* LocalDataManager._ensure_user
_ensure_user(a) ==
    IF a.current_user_id # None THEN a
    ELSE [users |-> create_local_user(a.users, SystemUser).users,
          local_user_id |-> create_local_user(a.users, SystemUser).id,
          current_user_id |-> create_local_user(a.users, SystemUser).id]

(***************************************************************************)
(* The state after installation: empty tables, no timer state file.        *)
(***************************************************************************)
NoTimerFile ==
    [exists |-> FALSE, malformed |-> FALSE, active |-> FALSE, paused |-> FALSE,
     start_time |-> None, duration_seconds |-> 0, remaining_seconds |-> 0]

\* a state file whose content json.load or the reading of its fields raises on
MalformedFile == [NoTimerFile EXCEPT !.exists = TRUE, !.malformed = TRUE]

\* TimerDaemon.__init__: the fields before _load_state
NewTimerDaemon ==
    [active |-> FALSE, paused |-> FALSE, start_time |-> None,
     duration_seconds |-> 0, remaining_seconds |-> 0]

\* no countdown started; otherwise phase is "started", "paused" or "resumed",
\* duration the countdown's seconds when it was started or paused, elapsed the
\* clock units it had run when paused, at the time of the start or resume,
\* rings the calls of _on_timer_complete since the start, 2 for two or more
NoPause ==
    [phase |-> "none", duration |-> 0, elapsed |-> 0, paused_at |-> 0, at |-> 0,
     rings |-> 0]

Init ==
    /\ tasks = <<>>
    /\ poms = <<>>
    /\ last = [kind |-> "init"]
    /\ acct = NoAccount
    /\ now = 1
    /\ tfile = NoTimerFile
    /\ dmn = [pid_file |-> "absent", pc |-> "none", self |-> NewTimerDaemon]
    /\ tlast = [op |-> "init"]
    /\ pz = NoPause

(***************************************************************************)
(* main.py: a task or pomodoro command.  It resolves the data manager of   *)
(* the configured mode and makes one call.                                 *)
(***************************************************************************)
Rows == Cardinality(DOMAIN tasks) + Cardinality(DOMAIN poms)

Fits(c) ==
    c.op \in {"create_task", "start_pomodoro"} =>
        /\ Rows < MaxRows
        /\ NextId(DOMAIN tasks) <= MaxRows
        /\ NextId(DOMAIN poms) <= MaxRows

Command(u, c, mode, probe, answer) ==
    LET r == DataManagerCall(tasks, poms, u, c, mode, probe, answer)
    IN  /\ Fits(c)
        /\ tasks' = r.tasks
        /\ poms' = r.poms
        /\ last' = [kind |-> "call", mgr |-> mode, user |-> u, call |-> c,
                    res |-> r.res, raised |-> r.raised, via |-> r.via,
                    remote |-> r.remote, steps |-> r.steps, probe |-> probe]
        /\ UNCHANGED <<acct, tvars>>

\* a command in local mode by the process that runs: the operation begins
\* with _ensure_user and works for the user id it answers
LocalCommand(c) ==
    LET a == _ensure_user(acct)
        r == LocalCall(tasks, poms, a.current_user_id, c)
    IN  /\ Fits(c)
        /\ Cardinality(DOMAIN acct.users) <= MaxRows
        /\ acct' = a
        /\ tasks' = r.tasks
        /\ poms' = r.poms
        /\ last' = [kind |-> "local", user |-> a.current_user_id, call |-> c,
                    res |-> r.res, raised |-> r.raised,
                    created |-> DOMAIN a.users \ DOMAIN acct.users]
        /\ UNCHANGED tvars

\* the command ends and the next one is a new process
Restart ==
    /\ acct.current_user_id # None
    /\ acct' = [acct EXCEPT !.current_user_id = None]
    /\ last' = [kind |-> "restart"]
    /\ UNCHANGED <<tasks, poms, tvars>>

(***************************************************************************)
(* main.py: mode sync, which calls sync_engine.sync_all().                 *)
(***************************************************************************)
SyncAllDb(u, mode, probe, token, tdb, pdb) ==
    \E tfail \in SUBSET ToCreateTasks(tasks, u) :
    \E trid \in [ToCreateTasks(tasks, u) \ tfail -> RemoteIds] :
    \E pout \in [ToCreatePoms(poms, u) -> PomOutcomes] :
    \E prid \in [PomCreated(poms, u, pout) -> RemoteIds] :
        LET r == sync_all(tasks, poms, u, mode, probe, token, tfail, trid, pout, prid,
                          tdb, pdb)
        IN  /\ tasks' = r.tasks
            /\ poms' = r.poms
            /\ last' = [kind |-> "sync", user |-> u, mode |-> mode,
                        probe |-> probe, token |-> token, res |-> r.res,
                        tdb |-> tdb, pdb |-> pdb,
                        pending_poms |-> PendingPoms(poms, u),
                        calls |-> r.calls,
                        pending |-> PendingTasks(tasks, u),
                        failed |-> FailedTasks(tasks, u, tfail),
                        just_synced |->
                            IF last.kind = "sync" /\ last.res.error = ""
                            THEN last.pending \ last.failed ELSE {}]
            /\ UNCHANGED <<acct, tvars>>

\* a sync run during which the local database works
SyncAll(u, mode, probe, token) == SyncAllDb(u, mode, probe, token, "ok", "ok")

(***************************************************************************)
(* Specifications.  Each one runs the commands of one part of the program  *)
(* from the state after installation.                                      *)
(***************************************************************************)
TaskCalls == {c \in Calls : c.op \notin {"start_pomodoro", "complete_pomodoro"}}

MutateCalls ==
    {c \in Calls : c.op \notin {"get_current_user", "get_tasks", "get_active_task"}}

\* local mode: the task commands of two users
NextLocal ==
    \E u \in Users, c \in TaskCalls : Command(u, c, "local", FALSE, "failed")

SpecLocal == Init /\ [][NextLocal]_vars

\* local mode with the user the program creates for itself, over restarts
NextUser ==
    \/ \E c \in TaskCalls : LocalCommand(c)
    \/ Restart

SpecUser == Init /\ [][NextUser]_vars

\* one operation of a HybridDataManager while the configuration names any
\* of the three modes and the probe, where made, meets net
HybridCommand(u, c, mode, net, answer) ==
    LET r == _try_cloud_fallback_local(tasks, poms, u, c, mode,
                                       check_connectivity(net), answer)
        s == should_use_cloud(mode, check_connectivity(net))
    IN  /\ Fits(c)
        /\ tasks' = r.tasks
        /\ poms' = r.poms
        /\ last' = [kind |-> "hybrid call", mode |-> mode, user |-> u,
                    call |-> c, res |-> r.res, raised |-> r.raised,
                    via |-> r.via, remote |-> r.remote, steps |-> r.steps,
                    use_cloud |-> s.use, probes |-> s.probes,
                    net |-> IF s.probes = 0 THEN "no probe" ELSE net]
        /\ UNCHANGED <<acct, tvars>>

\* hybrid mode: every command of one user, the probe and the remote free;
\* after a probe that fails no request is made, one answer stands for all
NextHybrid ==
    \E c \in Calls, probe \in BOOLEAN :
        \E answer \in IF probe THEN RemoteAnswers ELSE {"failed"} :
            Command("u1", c, "hybrid", probe, answer)

SpecHybrid == Init /\ [][NextHybrid]_vars

\* the mode, the answer of the probe and the answer of the remote service;
\* where the code makes no probe or no request, one value stands for all
ManagerInputs ==
    {<<"local", FALSE, "failed">>, <<"hybrid", FALSE, "failed">>}
    \cup {<<mode, TRUE, answer>> :
            mode \in {"cloud", "hybrid"}, answer \in RemoteAnswers}

\* every manager: the commands of a user that create a row or name one,
\* among rows another user created
NextManagers ==
    \/ \E c \in MutateCalls, i \in ManagerInputs :
          Command("u1", c, i[1], i[2], i[3])
    \/ \E c \in {c \in Calls : c.op = "create_task"} :
          Command("u2", c, "local", FALSE, "failed")

SpecManagers == Init /\ [][NextManagers]_vars

\* local mutations of one user and sync runs in between, the preconditions
\* of sync_all met
SyncCalls ==
    {c \in MutateCalls :
        /\ c.op # "delete_task"
        /\ c.op = "start_pomodoro" => c.task_id = None}

NextSync ==
    \/ \E c \in SyncCalls : Command("u1", c, "local", FALSE, "failed")
    \/ SyncAll("u1", "hybrid", TRUE, TRUE)

SpecSync == Init /\ [][NextSync]_vars

\* the commands that make a row pending
DbCalls ==
    {c \in SyncCalls : c.op \in {"create_task", "start_pomodoro", "complete_pomodoro"}}

\* the database works, or fails in one of the two phases
DbInputs ==
    {<<"ok", "ok">>}
    \cup {<<db, "ok">> : db \in DbOutcomes \ {"ok"}}
    \cup {<<"ok", db>> : db \in DbOutcomes \ {"ok"}}

\* the preconditions of sync_all that fail, one at a time
FailingGates ==
    {<<"local", TRUE, TRUE>>, <<"hybrid", FALSE, TRUE>>, <<"hybrid", TRUE, FALSE>>}

\* local mutations of one user and sync runs in between, during which the
\* local database may fail in either phase
NextSyncDb ==
    \/ \E c \in DbCalls : Command("u1", c, "local", FALSE, "failed")
    \/ \E d \in DbInputs :
          SyncAllDb("u1", "hybrid", TRUE, TRUE, d[1], d[2])
    \/ \E g \in FailingGates : SyncAll("u1", g[1], g[2], g[3])

SpecSyncDb == Init /\ [][NextSyncDb]_vars

\* tasks, pomodoros that name a task or none, and sync runs in between
RefCalls == {c \in Calls : c.op \in {"create_task", "start_pomodoro"}}

NextSyncRef ==
    \/ \E c \in RefCalls : Command("u1", c, "local", FALSE, "failed")
    \/ SyncAll("u1", "hybrid", TRUE, TRUE)

SpecSyncRef == Init /\ [][NextSyncRef]_vars

\* the configured mode, what the probe meets and the answer of the remote
\* service; where the code makes no probe or no request, one value stands
\* for all: the service up in local mode, the network down in cloud mode
HybridInputs ==
    {<<"local", "200", "ok">>}
    \cup {<<"cloud", "error", answer>> : answer \in RemoteAnswers}
    \cup {<<"hybrid", "200", answer>> : answer \in RemoteAnswers}
    \cup {<<"hybrid", net, "failed">> : net \in ProbeAnswers \ {"200"}}

\* every command of one user under a cloud manager, and the task commands
\* under a hybrid manager with each configured mode and outcome of the probe
NextModes ==
    \/ \E c \in Calls, answer \in RemoteAnswers :
          Command("u1", c, "cloud", TRUE, answer)
    \/ \E c \in TaskCalls, i \in HybridInputs :
          HybridCommand("u1", c, i[1], i[2], i[3])

SpecModes == Init /\ [][NextModes]_vars

\* sync runs under every mode, probe answer and token, with records pending
CreateCalls == {c \in Calls : c.op \in {"create_task", "start_pomodoro"}}

NextSyncGate ==
    \/ \E c \in CreateCalls : Command("u1", c, "local", FALSE, "failed")
    \/ \E mode \in Modes, probe \in BOOLEAN, token \in BOOLEAN :
          SyncAll("u1", mode, probe, token)

SpecSyncGate == Init /\ [][NextSyncGate]_vars

(***************************************************************************)
(* daemon.py: TimerDaemon.  self is the object's fields, f the state file, *)
(* t the wall clock.  int(elapsed) keeps the whole seconds.                *)
(***************************************************************************)
IntElapsed(t, start_time) == (t - start_time) \div ClockRes

Max0(x) == IF x < 0 THEN 0 ELSE x

_save_state(self) ==
    [exists |-> TRUE, malformed |-> FALSE, active |-> self.active, paused |-> self.paused,
     start_time |-> self.start_time,
     duration_seconds |-> self.duration_seconds,
     remaining_seconds |-> self.remaining_seconds]

\* _load_state that leaves an expired countdown active
_load_state_keep_active(self, f, t) ==
    IF ~f.exists THEN self
    ELSE IF f.malformed THEN NewTimerDaemon
    ELSE [active |-> f.active, paused |-> f.paused,
          start_time |-> f.start_time,
          duration_seconds |-> f.duration_seconds,
          remaining_seconds |->
              IF f.active /\ f.start_time # None /\ ~f.paused
              THEN Max0(f.duration_seconds - IntElapsed(t, f.start_time))
              ELSE f.remaining_seconds]

\* the fields after _load_state; an expired countdown is deactivated in
\* memory (and _on_timer_complete runs), the file is not rewritten
_load_state(self, f, t) ==
    IF ~f.exists THEN self
    ELSE IF f.malformed THEN NewTimerDaemon
    ELSE LET s0 == [active |-> f.active, paused |-> f.paused,
                    start_time |-> f.start_time,
                    duration_seconds |-> f.duration_seconds,
                    remaining_seconds |-> f.remaining_seconds]
             rem == Max0(f.duration_seconds - IntElapsed(t, f.start_time))
         IN  IF f.active /\ f.start_time # None /\ ~f.paused
             THEN [s0 EXCEPT !.remaining_seconds = rem,
                             !.active = IF rem <= 0 THEN FALSE ELSE @]
             ELSE s0

\* a load that leaves a malformed state file in place
LoadedFile_kept(f) == f

\* the state file after _load_state: the except clause calls _clear_state,
\* which unlinks it
LoadedFile(f) == IF f.exists /\ f.malformed THEN NoTimerFile ELSE f

\* a CLI command is a fresh process: the module-level TimerDaemon() loads the
\* state once, and the command loads it again
CliLoad(f, t) == _load_state(_load_state(NewTimerDaemon, f, t), f, t)

\* the calls of _on_timer_complete one _load_state makes: one when the file
\* holds an active, unpaused countdown that has expired
Completes(f, t) ==
    IF /\ f.exists /\ ~f.malformed
       /\ f.active /\ f.start_time # None /\ ~f.paused
       /\ Max0(f.duration_seconds - IntElapsed(t, f.start_time)) <= 0
    THEN 1 ELSE 0

\* those of the two loads of a fresh process
CliCompletes(f, t) == Completes(f, t) + Completes(LoadedFile(f), t)

\* the bookkeeping after n calls of _on_timer_complete
Rung(p, n) == [p EXCEPT !.rings = IF @ + n > 2 THEN 2 ELSE @ + n]

\* start_timer that does not look whether a timer is active
start_timer_always(f, t, duration_minutes) ==
    [file |-> _save_state(
                [active |-> TRUE, paused |-> FALSE, start_time |-> t,
                 duration_seconds |-> duration_minutes * SecondsPerMinute,
                 remaining_seconds |-> duration_minutes * SecondsPerMinute]),
     ok |-> TRUE, msg |-> "Started"]

\* start_timer that stores the duration in minutes beside a countdown in
\* seconds
start_timer_in_minutes(f, t, duration_minutes) ==
    LET self == CliLoad(f, t)
    IN  IF self.active
        THEN [file |-> f, ok |-> FALSE, msg |-> "Timer is already running"]
        ELSE [file |-> _save_state(
                         [active |-> TRUE, paused |-> FALSE, start_time |-> t,
                          duration_seconds |-> duration_minutes,
                          remaining_seconds |-> duration_minutes * SecondsPerMinute]),
              ok |-> TRUE, msg |-> "Started"]

start_timer(f, t, duration_minutes) ==
    LET self == CliLoad(f, t)
    IN  IF self.active
        THEN [file |-> f, ok |-> FALSE, msg |-> "Timer is already running"]
        ELSE [file |-> _save_state(
                         [active |-> TRUE, paused |-> FALSE, start_time |-> t,
                          duration_seconds |-> duration_minutes * SecondsPerMinute,
                          remaining_seconds |-> duration_minutes * SecondsPerMinute]),
              ok |-> TRUE, msg |-> "Started"]

\* stop_timer that leaves the paused flag as it was
stop_timer_keep_paused(f, t) ==
    LET self == CliLoad(f, t)
    IN  IF ~self.active
        THEN [file |-> LoadedFile(f), ok |-> FALSE, msg |-> "No timer is running"]
        ELSE [file |-> _save_state([self EXCEPT !.active = FALSE]),
              ok |-> TRUE, msg |-> "Timer stopped"]

stop_timer(f, t) ==
    LET self == CliLoad(f, t)
    IN  IF ~self.active
        THEN [file |-> LoadedFile(f), ok |-> FALSE, msg |-> "No timer is running"]
        ELSE [file |-> _save_state([self EXCEPT !.active = FALSE, !.paused = FALSE]),
              ok |-> TRUE, msg |-> "Timer stopped"]

\* pause_timer whose resume keeps the duration of before the pause
pause_timer_keep_duration(f, t) ==
    LET self == CliLoad(f, t)
    IN  IF ~self.active
        THEN [file |-> LoadedFile(f), ok |-> FALSE, msg |-> "No timer is running"]
        ELSE IF ~self.paused
        THEN [file |-> _save_state(
                         [self EXCEPT
                            !.paused = TRUE,
                            !.remaining_seconds =
                                Max0(self.duration_seconds
                                       - IntElapsed(t, self.start_time))]),
              ok |-> TRUE, msg |-> "Timer paused"]
        ELSE [file |-> _save_state([self EXCEPT !.paused = FALSE, !.start_time = t]),
              ok |-> TRUE, msg |-> "Timer resumed"]

pause_timer(f, t) ==
    LET self == CliLoad(f, t)
    IN  IF ~self.active
        THEN [file |-> LoadedFile(f), ok |-> FALSE, msg |-> "No timer is running"]
        ELSE IF ~self.paused
        THEN [file |-> _save_state(
                         [self EXCEPT
                            !.paused = TRUE,
                            !.remaining_seconds =
                                Max0(self.duration_seconds
                                       - IntElapsed(t, self.start_time))]),
              ok |-> TRUE, msg |-> "Timer paused"]
        ELSE [file |-> _save_state(
                         [self EXCEPT !.paused = FALSE, !.start_time = t,
                                      !.duration_seconds = self.remaining_seconds]),
              ok |-> TRUE, msg |-> "Timer resumed"]

\* get_status that reports the countdown value the state file holds
get_status_persisted(f, t) ==
    LET self == CliLoad(f, t)
    IN  IF ~self.active
        THEN [active |-> FALSE, paused |-> FALSE, remaining_seconds |-> 0]
        ELSE [active |-> TRUE, paused |-> self.paused,
              remaining_seconds |-> f.remaining_seconds]

get_status(f, t) ==
    LET self == CliLoad(f, t)
    IN  IF ~self.active
        THEN [active |-> FALSE, paused |-> FALSE, remaining_seconds |-> 0]
        ELSE [active |-> TRUE, paused |-> self.paused,
              remaining_seconds |->
                  IF ~self.paused /\ self.start_time # None
                  THEN Max0(self.duration_seconds - IntElapsed(t, self.start_time))
                  ELSE self.remaining_seconds]

(***************************************************************************)
(* daemon_runner.py: one pass of the loop of main().                       *)
(***************************************************************************)
DaemonLoop(self, f, t) ==
    LET s1 == _load_state(self, f, t)
        s2 == [s1 EXCEPT !.remaining_seconds = @ - 1,
                         !.active = IF s1.remaining_seconds - 1 <= 0
                                    THEN FALSE ELSE @]
    IN  IF s1.active /\ ~s1.paused
        THEN [self |-> s2, file |-> _save_state(s2)]
        ELSE [self |-> s1, file |-> LoadedFile(f)]

\* the calls of _on_timer_complete one pass makes: that of its load, or its
\* own when the decrement reaches zero
LoopCompletes(self, f, t) ==
    LET s1 == _load_state(self, f, t)
    IN  Completes(f, t)
        + (IF s1.active /\ ~s1.paused /\ s1.remaining_seconds - 1 <= 0 THEN 1 ELSE 0)

(***************************************************************************)
(* daemon.py: the pid file.  It is absent, empty (created by a daemon that *)
(* has not written its process id, which int() cannot parse), or holds the *)
(* id of the daemon process ("daemon") or of a process that is no more     *)
(* ("stale").                                                              *)
(***************************************************************************)
PidFiles == {"absent", "empty", "daemon", "stale"}

\* is_daemon_running that trusts a pid file that holds a process id
is_daemon_running_unprobed(pid_file) ==
    IF pid_file = "absent" THEN [res |-> FALSE, pid_file |-> pid_file]
    ELSE IF pid_file = "empty" THEN [res |-> FALSE, pid_file |-> "absent"]
    ELSE [res |-> TRUE, pid_file |-> pid_file]

\* is_daemon_running: the answer and the pid file it leaves; ValueError of
\* int() and ProcessLookupError of os.kill(pid, 0) are caught
is_daemon_running(pid_file) ==
    IF pid_file = "absent" THEN [res |-> FALSE, pid_file |-> pid_file]
    ELSE IF pid_file = "daemon" THEN [res |-> TRUE, pid_file |-> pid_file]
    ELSE [res |-> FALSE, pid_file |-> "absent"]

(***************************************************************************)
(* The timer commands of main.py (pom start, stop, pause, status), the     *)
(* daemon's loop and the passing of time.  start_timer spawns the daemon   *)
(* when it is not running; spawn says what becomes of the new process      *)
(* within the second start_daemon waits: it registered its process id, it  *)
(* has not yet done so ("slow"), or it is gone ("crashed").  The model     *)
(* holds one daemon process: none is spawned beside a live one.            *)
(***************************************************************************)
SpawnOutcomes == {"registered", "slow", "crashed"}

Advance ==
    /\ now < MaxClock
    /\ now' = now + 1
    /\ tlast' = [op |-> "none"]
    /\ UNCHANGED <<tfile, dmn, pz, dvars>>

\* start_daemon that takes the process it spawned for registered
start_daemon_unchecked(pid_file, spawn) ==
    IF is_daemon_running(pid_file).res
    THEN [ok |-> FALSE, msg |-> "Timer daemon is already running"]
    ELSE [ok |-> TRUE, msg |-> "Timer daemon started"]

\* start_daemon: the result pair; after the spawn and a second it asks
\* is_daemon_running again
start_daemon(pid_file, spawn) ==
    IF is_daemon_running(pid_file).res
    THEN [ok |-> FALSE, msg |-> "Timer daemon is already running"]
    ELSE IF spawn = "registered"
    THEN [ok |-> TRUE, msg |-> "Timer daemon started"]
    ELSE [ok |-> FALSE, msg |-> "Failed to start timer daemon"]

\* the daemon after a command that calls start_daemon when none runs
Spawned(d, f, t, spawn) ==
    IF is_daemon_running(d.pid_file).res THEN d
    ELSE IF spawn = "registered"
    THEN [pid_file |-> "daemon", pc |-> "sleep",
          self |-> _load_state(NewTimerDaemon, f, t)]
    ELSE [d EXCEPT !.pid_file = is_daemon_running(d.pid_file).pid_file,
                   !.pc = IF spawn = "slow" THEN "spawned" ELSE "none"]

StartTimer(duration_minutes, spawn) ==
    LET run == is_daemon_running(dmn.pid_file)
        sd == start_daemon(dmn.pid_file, spawn)
        r == start_timer(tfile, now, duration_minutes)
    IN  /\ run.res \/ dmn.pc = "none"
        /\ dmn' = Spawned(dmn, tfile, now, spawn)
        /\ IF ~run.res /\ ~sd.ok
           THEN /\ tlast' = [op |-> "start_timer", ok |-> FALSE, msg |-> sd.msg,
                             found |-> dmn.pid_file,
                             malformed |-> tfile.exists /\ tfile.malformed]
                /\ tfile' = LoadedFile(tfile)
                /\ pz' = Rung(pz, Completes(tfile, now))
                /\ UNCHANGED <<now, dvars>>
           ELSE /\ tfile' = r.file
                /\ tlast' = [op |-> "start_timer", ok |-> r.ok, msg |-> r.msg,
                             found |-> dmn.pid_file,
                             malformed |-> tfile.exists /\ tfile.malformed]
                /\ pz' = IF r.ok
                          THEN [NoPause EXCEPT
                                   !.phase = "started", !.at = now,
                                   !.duration = r.file.duration_seconds]
                          ELSE pz
                /\ UNCHANGED <<now, dvars>>

\* main.py: pom daemon start, which calls start_daemon()
StartDaemon(spawn) ==
    /\ is_daemon_running(dmn.pid_file).res \/ dmn.pc = "none"
    /\ dmn' = Spawned(dmn, tfile, now, spawn)
    /\ tlast' = [op |-> "start_daemon",
                 ok |-> start_daemon(dmn.pid_file, spawn).ok,
                 msg |-> start_daemon(dmn.pid_file, spawn).msg,
                 found |-> dmn.pid_file]
    /\ tfile' = LoadedFile(tfile)
    /\ pz' = Rung(pz, Completes(tfile, now)
                        + (IF start_daemon(dmn.pid_file, spawn).ok
                           THEN CliCompletes(LoadedFile(tfile), now) ELSE 0))
    /\ UNCHANGED <<now, dvars>>

(***************************************************************************)
(* main.py: pom start.  It asks the data manager for the active task and   *)
(* the user's pomo_duration (25 where the call fails), calls               *)
(* daemon.start_timer and, if that answered success, start_pomodoro inside *)
(* a try of its own.  active and record are the answers of the remote      *)
(* service to get_active_task and to start_pomodoro.                       *)
(***************************************************************************)
PomoDuration == 25

\* active_task['id'], or None
ActiveTaskId(res) ==
    IF res = <<>> THEN None
    ELSE IF "id" \in DOMAIN res[1] THEN res[1].id
    ELSE Min(RemoteIds)

\* daemon.start_timer: the daemon is started where none runs, then the timer
TimerStart(d, f, t, duration_minutes, spawn) ==
    IF ~is_daemon_running(d.pid_file).res /\ ~start_daemon(d.pid_file, spawn).ok
    THEN [file |-> LoadedFile(f), ok |-> FALSE,
          msg |-> start_daemon(d.pid_file, spawn).msg]
    ELSE start_timer(f, t, duration_minutes)

\* pom start that records the pomodoro before it starts the timer
pom_start_record_first(T, P, u, d, f, t, mode, probe, active, record, spawn) ==
    LET a == DataManagerCall(T, P, u, [op |-> "get_active_task"], mode, probe, active)
        c == [op |-> "start_pomodoro", task_id |-> ActiveTaskId(a.res),
              session_type |-> "focus", duration |-> PomoDuration]
        r == TimerStart(d, f, t, PomoDuration, spawn)
        p == DataManagerCall(a.tasks, a.poms, u, c, mode, probe, record)
    IN  [tasks |-> p.tasks, poms |-> p.poms,
         file |-> r.file, dmn |-> Spawned(d, f, t, spawn),
         ok |-> r.ok, msg |-> r.msg,
         record |-> IF p.raised = "" THEN "recorded" ELSE "failed",
         via |-> p.via]

pom_start(T, P, u, d, f, t, mode, probe, active, record, spawn) ==
    LET a == DataManagerCall(T, P, u, [op |-> "get_active_task"], mode, probe, active)
        c == [op |-> "start_pomodoro", task_id |-> ActiveTaskId(a.res),
              session_type |-> "focus", duration |-> PomoDuration]
        r == TimerStart(d, f, t, PomoDuration, spawn)
        p == DataManagerCall(a.tasks, a.poms, u, c, mode, probe, record)
    IN  IF a.raised # ""
        THEN [tasks |-> T, poms |-> P, file |-> LoadedFile(f), dmn |-> d,
              ok |-> FALSE, msg |-> "Error", record |-> "not tried",
              via |-> "none"]
        ELSE IF ~r.ok
        THEN [tasks |-> a.tasks, poms |-> a.poms,
              file |-> r.file, dmn |-> Spawned(d, f, t, spawn),
              ok |-> FALSE, msg |-> r.msg, record |-> "not tried",
              via |-> "none"]
        ELSE [tasks |-> p.tasks, poms |-> p.poms,
              file |-> r.file, dmn |-> Spawned(d, f, t, spawn),
              ok |-> TRUE, msg |-> r.msg,
              record |-> IF p.raised = "" THEN "recorded" ELSE "failed",
              via |-> p.via]

PomStart(u, mode, probe, active, record, spawn) ==
    LET r == pom_start(tasks, poms, u, dmn, tfile, now, mode, probe, active,
                       record, spawn)
    IN  /\ is_daemon_running(dmn.pid_file).res \/ dmn.pc = "none"
        /\ Fits([op |-> "start_pomodoro"])
        /\ tasks' = r.tasks
        /\ poms' = r.poms
        /\ tfile' = r.file
        /\ dmn' = r.dmn
        /\ tlast' = [op |-> "pom_start", ok |-> r.ok, msg |-> r.msg,
                     record |-> r.record, via |-> r.via, mgr |-> mode,
                     was_active |-> CliLoad(tfile, now).active]
        /\ pz' = IF r.ok
                 THEN [NoPause EXCEPT !.phase = "started", !.at = now,
                                      !.duration = r.file.duration_seconds]
                 ELSE Rung(pz, Completes(tfile, now))
        /\ last' = [kind |-> "pom_start", user |-> u, mgr |-> mode]
        /\ UNCHANGED <<now, acct>>

StopTimer ==
    LET r == stop_timer(tfile, now)
    IN  /\ tfile' = r.file
        /\ tlast' = [op |-> "stop_timer", ok |-> r.ok, msg |-> r.msg,
                     from |-> IF ~CliLoad(tfile, now).active THEN "idle"
                              ELSE IF CliLoad(tfile, now).paused THEN "paused"
                              ELSE "running"]
        /\ pz' = IF r.ok THEN NoPause ELSE Rung(pz, CliCompletes(tfile, now))
        /\ UNCHANGED <<now, dmn, dvars>>

PauseTimer ==
    LET r == pause_timer(tfile, now)
    IN  /\ tfile' = r.file
        /\ tlast' = [op |-> "pause_timer", ok |-> r.ok, msg |-> r.msg]
        /\ pz' = IF ~r.ok THEN Rung(pz, CliCompletes(tfile, now))
                 ELSE IF r.file.paused
                 THEN [phase |-> "paused",
                       duration |-> tfile.duration_seconds,
                       elapsed |-> now - tfile.start_time,
                       paused_at |-> now, at |-> now, rings |-> pz.rings]
                 ELSE [pz EXCEPT !.phase = "resumed", !.at = now]
        /\ UNCHANGED <<now, dmn, dvars>>

GetStatus ==
    /\ tlast' = [op |-> "get_status", status |-> get_status(tfile, now)]
    /\ tfile' = LoadedFile(tfile)
    /\ pz' = Rung(pz, CliCompletes(tfile, now))
    /\ UNCHANGED <<now, dmn, dvars>>

DaemonTick ==
    /\ dmn.pc = "sleep"
    /\ dmn' = [dmn EXCEPT !.self = DaemonLoop(dmn.self, tfile, now).self]
    /\ tfile' = DaemonLoop(dmn.self, tfile, now).file
    /\ tlast' = [op |-> "none"]
    /\ pz' = Rung(pz, LoopCompletes(dmn.self, tfile, now))
    /\ UNCHANGED <<now, dvars>>

(***************************************************************************)
(* daemon_runner.py: main() step by step, for the commands and signals     *)
(* that meet the daemon in the middle of its start or of a pass of its     *)
(* loop.  pc is "none" (no process), "spawned" (before TimerDaemon()),     *)
(* "opened" (pid file created), "written" (process id written, handlers    *)
(* not yet registered), "sleep" (between two passes) or "loaded" (state    *)
(* loaded and decremented, not yet saved).                                 *)
(***************************************************************************)
BootOpen ==
    /\ dmn.pc = "spawned"
    /\ dmn' = [pid_file |-> "empty", pc |-> "opened",
               self |-> _load_state(NewTimerDaemon, tfile, now)]
    /\ tfile' = LoadedFile(tfile)
    /\ tlast' = [op |-> "none"]
    /\ pz' = Rung(pz, CliCompletes(tfile, now))
    /\ UNCHANGED <<now, dvars>>

\* the write lands in the file opened, be it unlinked since
BootWrite ==
    /\ dmn.pc = "opened"
    /\ dmn' = [dmn EXCEPT !.pc = "written",
                          !.pid_file = IF @ = "empty" THEN "daemon" ELSE @]
    /\ tlast' = [op |-> "none"]
    /\ UNCHANGED <<now, tfile, pz, dvars>>

BootHandlers ==
    /\ dmn.pc = "written"
    /\ dmn' = [dmn EXCEPT !.pc = "sleep"]
    /\ tlast' = [op |-> "none"]
    /\ UNCHANGED <<now, tfile, pz, dvars>>

\* whether the pass that loads f saves afterwards
LoopSaves(self, f, t) ==
    _load_state(self, f, t).active /\ ~_load_state(self, f, t).paused

TickLoad ==
    /\ dmn.pc = "sleep"
    /\ dmn' = [dmn EXCEPT
                  !.self = DaemonLoop(dmn.self, tfile, now).self,
                  !.pc = IF LoopSaves(dmn.self, tfile, now) THEN "loaded" ELSE "sleep"]
    /\ tfile' = LoadedFile(tfile)
    /\ tlast' = [op |-> "none"]
    /\ pz' = Rung(pz, LoopCompletes(dmn.self, tfile, now))
    /\ UNCHANGED <<now, dvars>>

TickSave ==
    /\ dmn.pc = "loaded"
    /\ tfile' = _save_state(dmn.self)
    /\ dmn' = [dmn EXCEPT !.pc = "sleep"]
    /\ tlast' = [op |-> "none"]
    /\ UNCHANGED <<now, pz, dvars>>

\* a signal handler that leaves the state file in place
signal_handler_keep_state(d, f) ==
    [dmn |-> [pid_file |-> "absent", pc |-> "none", self |-> NewTimerDaemon],
     file |-> f]

\* signal_handler: _clear_state, unlink of the pid file, sys.exit(0)
signal_handler(d, f) ==
    [dmn |-> [pid_file |-> "absent", pc |-> "none", self |-> NewTimerDaemon],
     file |-> NoTimerFile]

\* SIGTERM reaches the process: the handler runs once it is registered,
\* before that the process ends and its files stay
Deliver(d, f) ==
    IF d.pc \in {"sleep", "loaded"} THEN signal_handler(d, f)
    ELSE [dmn |-> [d EXCEPT !.pc = "none",
                            !.pid_file = IF @ = "daemon" THEN "stale" ELSE @],
          file |-> f]

\* what the state file holds for a command at time t
TimerPhase(f, t) ==
    IF ~CliLoad(f, t).active THEN "idle"
    ELSE IF CliLoad(f, t).paused THEN "paused"
    ELSE "running"

\* SIGTERM sent to the daemon by another program
Signal ==
    /\ dmn.pc # "none"
    /\ dmn' = Deliver(dmn, tfile).dmn
    /\ tfile' = Deliver(dmn, tfile).file
    /\ tlast' = [op |-> "signal", ok |-> TRUE, at |-> dmn.pc,
                 from |-> TimerPhase(tfile, now)]
    /\ pz' = IF Deliver(dmn, tfile).file.exists THEN pz ELSE NoPause
    /\ UNCHANGED <<now, dvars>>

\* the process ends without a handler: SIGKILL, a crash, a power cut
Crash ==
    /\ dmn.pc # "none"
    /\ dmn' = [dmn EXCEPT !.pc = "none",
                          !.pid_file = IF @ = "daemon" THEN "stale" ELSE @]
    /\ tlast' = [op |-> "crash"]
    /\ UNCHANGED <<now, tfile, pz, dvars>>

\* main.py: pom daemon status, which calls is_daemon_running()
DaemonStatus ==
    /\ dmn' = [dmn EXCEPT !.pid_file = is_daemon_running(dmn.pid_file).pid_file]
    /\ tlast' = [op |-> "daemon_status",
                 ok |-> is_daemon_running(dmn.pid_file).res,
                 found |-> dmn.pid_file]
    /\ tfile' = LoadedFile(tfile)
    /\ pz' = Rung(pz, Completes(tfile, now))
    /\ UNCHANGED <<now, dvars>>

\* main.py: pom daemon stop, which calls stop_daemon()
StopDaemon ==
    LET run == is_daemon_running(dmn.pid_file)
        r == Deliver(dmn, LoadedFile(tfile))
    IN  IF ~run.res
        THEN /\ dmn' = [dmn EXCEPT !.pid_file = run.pid_file]
             /\ tlast' = [op |-> "stop_daemon", ok |-> FALSE, at |-> dmn.pc,
                          from |-> TimerPhase(tfile, now)]
             /\ tfile' = LoadedFile(tfile)
             /\ pz' = Rung(pz, Completes(tfile, now))
             /\ UNCHANGED <<now, dvars>>
        ELSE /\ dmn' = [r.dmn EXCEPT !.pid_file = "absent"]
             /\ tfile' = r.file
             /\ tlast' = [op |-> "stop_daemon", ok |-> TRUE, at |-> dmn.pc,
                          from |-> TimerPhase(tfile, now)]
             /\ pz' = IF r.file.exists THEN Rung(pz, Completes(tfile, now))
                      ELSE NoPause
             /\ UNCHANGED <<now, dvars>>

\* the state file is damaged from outside the program: a torn write, a
\* disk fault, an edit
Corrupt ==
    /\ tfile.exists /\ ~tfile.malformed
    /\ tfile' = MalformedFile
    /\ tlast' = [op |-> "corrupt"]
    /\ UNCHANGED <<now, dmn, pz, dvars>>

NextTimer ==
    \/ Advance
    \/ \E m \in 1..MaxMinutes, spawn \in {"registered", "crashed"} :
          StartTimer(m, spawn)
    \/ StopTimer
    \/ PauseTimer
    \/ GetStatus
    \/ DaemonTick

SpecTimer == Init /\ [][NextTimer]_vars

\* the timer commands and the daemon's loop over a state file that can be
\* damaged
NextCorrupt ==
    \/ now < MaxDaemonClock /\ Advance
    \/ \E spawn \in {"registered", "crashed"} : StartTimer(1, spawn)
    \/ StopTimer
    \/ PauseTimer
    \/ GetStatus
    \/ DaemonTick
    \/ Corrupt

SpecCorrupt == Init /\ [][NextCorrupt]_vars

\* the timer with the daemon's start and loop step by step, signals,
\* crashes and pom daemon stop
NextDaemon ==
    \/ now < MaxDaemonClock /\ Advance
    \/ \E spawn \in SpawnOutcomes : StartTimer(1, spawn)
    \/ PauseTimer
    \/ BootOpen
    \/ BootWrite
    \/ BootHandlers
    \/ TickLoad
    \/ TickSave
    \/ Signal
    \/ Crash
    \/ \E spawn \in SpawnOutcomes : StartDaemon(spawn)
    \/ DaemonStatus
    \/ StopDaemon

SpecDaemon == Init /\ [][NextDaemon]_vars

\* the timer commands beside a daemon whose pass is two steps: the load and
\* decrement, then the save; a command can run in between
NextRace ==
    \/ now < MaxDaemonClock /\ Advance
    \/ StartTimer(1, "registered")
    \/ StopTimer
    \/ PauseTimer
    \/ TickLoad
    \/ TickSave

SpecRace == Init /\ [][NextRace]_vars

\* what the remote service answers pom start, under each manager; where no
\* request is made one answer stands for all
PomStartInputs ==
    {<<"local", FALSE, "failed", "failed">>, <<"hybrid", FALSE, "failed", "failed">>}
    \cup {<<mode, TRUE, active, record>> :
            mode \in {"cloud", "hybrid"},
            active \in {"ok", "failed"}, record \in {"ok", "failed"}}

\* pom start under every manager, with a daemon that starts or fails to,
\* pom stop, and the task commands that make a task active
NextPomStart ==
    \/ \E i \in PomStartInputs, spawn \in {"registered", "crashed"} :
          PomStart("u1", i[1], i[2], i[3], i[4], spawn)
    \/ StopTimer
    \/ \E c \in {c \in Calls : c.op \in {"create_task", "start_task"}} :
          Command("u1", c, "local", FALSE, "failed")

SpecPomStart == Init /\ [][NextPomStart]_vars

(***************************************************************************)
(* daemon.py, daemon_runner.py: start_daemon step by step, for two CLI     *)
(* commands (pom start or pom daemon start) that run at the same time and  *)
(* the daemon processes they spawn.  Here dmn holds the pid file (absent,  *)
(* empty, or the name of the process whose id it holds), procs the         *)
(* position of each daemon process: "none" (no such process), "spawned"    *)
(* (before the pid file is opened), "opened" (pid file created or          *)
(* truncated, id not yet written), "orphaned" (the file it opened has been *)
(* unlinked since), "running" (id written), and cli the position of each   *)
(* command: "idle", "checked" (is_daemon_running answered False, Popen not *)
(* yet called) or "waiting" (in the sleep after Popen).                    *)
(***************************************************************************)
Daemons == {"d1", "d2"}

Clis == {"c1", "c2"}

InitSpawn ==
    /\ tasks = <<>>
    /\ poms = <<>>
    /\ last = [kind |-> "init"]
    /\ acct = NoAccount
    /\ now = 1
    /\ tfile = NoTimerFile
    /\ dmn = [pid_file |-> "absent",
              procs |-> [d \in Daemons |-> "none"],
              cli |-> [c \in Clis |-> "idle"]]
    /\ tlast = [op |-> "init"]
    /\ pz = NoPause

\* what is_daemon_running meets: the pid file names a process that lives
\* ("daemon") or one that is no more ("stale")
PidFileOf(d) ==
    IF d.pid_file \in {"absent", "empty"} THEN d.pid_file
    ELSE IF d.procs[d.pid_file] # "none" THEN "daemon"
    ELSE "stale"

\* the pid file and the processes after is_daemon_running: where it unlinks
\* the file, a process that has opened it and not yet written writes into
\* the unlinked file
Probed(d) ==
    IF is_daemon_running(PidFileOf(d)).pid_file = "absent" /\ d.pid_file # "absent"
    THEN [d EXCEPT !.pid_file = "absent",
                   !.procs = [p \in Daemons |->
                                 IF d.procs[p] = "opened" THEN "orphaned"
                                 ELSE d.procs[p]]]
    ELSE d

\* start_daemon up to Popen: the first is_daemon_running
SpawnCheck(c) ==
    /\ dmn.cli[c] = "idle"
    /\ dmn' = [Probed(dmn) EXCEPT
                  !.cli[c] = IF is_daemon_running(PidFileOf(dmn)).res
                             THEN "idle" ELSE "checked"]
    /\ tlast' = [op |-> "start_daemon", cli |-> c, step |-> "check",
                 ok |-> FALSE,
                 msg |-> IF is_daemon_running(PidFileOf(dmn)).res
                         THEN "Timer daemon is already running" ELSE ""]
    /\ UNCHANGED <<now, tfile, pz, dvars>>

\* subprocess.Popen: a new daemon process
SpawnPopen(c) ==
    /\ dmn.cli[c] = "checked"
    /\ \E d \in Daemons :
          /\ dmn.procs[d] = "none" /\ dmn.pid_file # d
          /\ dmn' = [dmn EXCEPT !.cli[c] = "waiting", !.procs[d] = "spawned"]
    /\ tlast' = [op |-> "start_daemon", cli |-> c, step |-> "popen",
                 ok |-> FALSE, msg |-> ""]
    /\ UNCHANGED <<now, tfile, pz, dvars>>

\* after time.sleep(1): the second is_daemon_running and the result
SpawnResult(c) ==
    /\ dmn.cli[c] = "waiting"
    /\ dmn' = [Probed(dmn) EXCEPT !.cli[c] = "idle"]
    /\ tlast' = [op |-> "start_daemon", cli |-> c, step |-> "result",
                 ok |-> is_daemon_running(PidFileOf(dmn)).res,
                 msg |-> IF is_daemon_running(PidFileOf(dmn)).res
                         THEN "Timer daemon started"
                         ELSE "Failed to start timer daemon"]
    /\ UNCHANGED <<now, tfile, pz, dvars>>

\* daemon_runner.main: open(daemon.pid_file, 'w') creates or truncates
ProcOpen(d) ==
    /\ dmn.procs[d] = "spawned"
    /\ dmn' = [dmn EXCEPT !.pid_file = "empty", !.procs[d] = "opened"]
    /\ tlast' = [op |-> "none"]
    /\ UNCHANGED <<now, tfile, pz, dvars>>

\* f.write(str(os.getpid())), into the file the process opened
ProcWrite(d) ==
    /\ dmn.procs[d] \in {"opened", "orphaned"}
    /\ dmn' = [dmn EXCEPT !.pid_file = IF dmn.procs[d] = "opened" THEN d ELSE @,
                          !.procs[d] = "running"]
    /\ tlast' = [op |-> "none"]
    /\ UNCHANGED <<now, tfile, pz, dvars>>

\* a daemon process ends without its handler: SIGKILL, a crash
ProcDies(d) ==
    /\ dmn.procs[d] = "running"
    /\ dmn' = [dmn EXCEPT !.procs[d] = "none"]
    /\ tlast' = [op |-> "crash"]
    /\ UNCHANGED <<now, tfile, pz, dvars>>

NextSpawn ==
    \/ \E c \in Clis : SpawnCheck(c)
    \/ \E c \in Clis : SpawnPopen(c)
    \/ \E c \in Clis : SpawnResult(c)
    \/ \E d \in Daemons : ProcOpen(d)
    \/ \E d \in Daemons : ProcWrite(d)
    \/ \E d \in Daemons : ProcDies(d)

SpecSpawn == InitSpawn /\ [][NextSpawn]_vars

(***************************************************************************)
(* timer.py: the in-process Timer.  Here dmn holds the fields of the Timer *)
(* object and threads, the position of each countdown thread: "none" (no   *)
(* such thread), "due" (started, or its sleep of one second is over) or    *)
(* "sleep".  A thread that is due runs its next pass of _run_timer before  *)
(* the clock moves on; now counts seconds here.  decs is bookkeeping: the  *)
(* decrements of remaining_seconds since the clock last moved or the timer *)
(* was started.                                                            *)
(***************************************************************************)
TimerThreads == {"t1", "t2"}

NewTimer ==
    [active |-> FALSE, paused |-> FALSE, duration_seconds |-> 0,
     remaining_seconds |-> 0,
     threads |-> [th \in TimerThreads |-> "none"], decs |-> 0]

InitThreads ==
    /\ tasks = <<>>
    /\ poms = <<>>
    /\ last = [kind |-> "init"]
    /\ acct = NoAccount
    /\ now = 1
    /\ tfile = NoTimerFile
    /\ dmn = NewTimer
    /\ tlast = [op |-> "init"]
    /\ pz = NoPause

\* Timer.start: a new thread where no timer is active
Timer_start(duration_minutes) ==
    /\ IF dmn.active
       THEN /\ dmn' = dmn
            /\ tlast' = [op |-> "start", ok |-> FALSE]
       ELSE \E th \in TimerThreads :
               /\ dmn.threads[th] = "none"
               /\ dmn' = [dmn EXCEPT
                             !.active = TRUE, !.paused = FALSE,
                             !.duration_seconds = duration_minutes * SecondsPerMinute,
                             !.remaining_seconds = duration_minutes * SecondsPerMinute,
                             !.threads[th] = "due", !.decs = 0]
               /\ tlast' = [op |-> "start", ok |-> TRUE]
    /\ UNCHANGED <<now, tfile, pz, dvars>>

\* Timer.stop
Timer_stop ==
    /\ dmn' = IF dmn.active THEN [dmn EXCEPT !.active = FALSE, !.paused = FALSE]
              ELSE dmn
    /\ tlast' = [op |-> "stop", ok |-> dmn.active]
    /\ UNCHANGED <<now, tfile, pz, dvars>>

\* Timer.pause
Timer_pause ==
    /\ dmn' = IF dmn.active THEN [dmn EXCEPT !.paused = ~@] ELSE dmn
    /\ tlast' = [op |-> "pause", ok |-> dmn.active]
    /\ UNCHANGED <<now, tfile, pz, dvars>>

\* one pass of the while loop of _run_timer by a thread, or its end
\* (_on_timer_complete and active = False where the countdown is at zero)
_run_timer(th) ==
    /\ dmn.threads[th] = "due"
    /\ dmn' = IF dmn.active /\ dmn.remaining_seconds > 0
              THEN [dmn EXCEPT
                      !.remaining_seconds = IF dmn.paused THEN @ ELSE @ - 1,
                      !.decs = IF dmn.paused THEN @ ELSE @ + 1,
                      !.threads[th] = "sleep"]
              ELSE [dmn EXCEPT !.active = FALSE, !.threads[th] = "none"]
    /\ tlast' = [op |-> "thread", thread |-> th,
                 completed |-> dmn.active /\ dmn.remaining_seconds <= 0]
    /\ UNCHANGED <<now, tfile, pz, dvars>>

\* a second passes: the sleeping threads are due
Second ==
    /\ now < MaxDaemonClock
    /\ \A th \in TimerThreads : dmn.threads[th] # "due"
    /\ now' = now + 1
    /\ dmn' = [dmn EXCEPT
                  !.threads = [th \in TimerThreads |->
                                  IF dmn.threads[th] = "sleep" THEN "due"
                                  ELSE dmn.threads[th]],
                  !.decs = 0]
    /\ tlast' = [op |-> "none"]
    /\ UNCHANGED <<tfile, pz, dvars>>

NextThreads ==
    \/ \E m \in 1..MaxMinutes : Timer_start(m)
    \/ Timer_stop
    \/ Timer_pause
    \/ \E th \in TimerThreads : _run_timer(th)
    \/ Second

SpecThreads == InitThreads /\ [][NextThreads]_vars

(***************************************************************************)
(* Flow state mode (flow_mode.py): the hosts file is a sequence of         *)
(* characters.  "nl" is the newline; "a" is a character of ordinary text;  *)
(* "M" stands for the text of flowstate_marker, "E" for the text " END"    *)
(* that follows it on the closing line, "h" for the text of one host       *)
(* entry.  dmn holds the hosts file, the backup file and the content the   *)
(* hosts file had before the last successful activate.                     *)
(***************************************************************************)
MaxHostsLen == 3
MaxSites == 1
MaxRounds == 2

flowstate_marker == "M"

HostsChars == {"a", "nl"}

HostsContents == UNION {[1..n -> HostsChars] : n \in 0..MaxHostsLen}

\* marker in content
Contains(content, text) == \E i \in 1..Len(content) : content[i] = text

is_active(content) == Contains(content, flowstate_marker)

\* '\n'.join(entries)
RECURSIVE Join(_)
Join(entries) ==
    IF entries = <<>> THEN <<>>
    ELSE IF Len(entries) = 1 THEN entries[1]
    ELSE entries[1] \o <<"nl">> \o Join(Tail(entries))

\* the four entries of each site, in order
RECURSIVE SiteEntries(_)
SiteEntries(n) ==
    IF n = 0 THEN <<>>
    ELSE SiteEntries(n - 1) \o << <<"h">>, <<"h">>, <<"h">>, <<"h">> >>

\* _add_blocked_sites: the text appended to the hosts file
blocked_entries(sites) ==
    << <<"nl", flowstate_marker>> >> \o SiteEntries(sites)
        \o << <<flowstate_marker, "E", "nl">> >>

_add_blocked_sites(content, sites) == content \o Join(blocked_entries(sites))

\* f.readlines(): every line keeps its newline, the last one may have none
RECURSIVE readlines(_, _)
readlines(content, line) ==
    IF content = <<>> THEN (IF line = <<>> THEN <<>> ELSE <<line>>)
    ELSE IF Head(content) = "nl"
         THEN <<Append(line, "nl")>> \o readlines(Tail(content), <<>>)
         ELSE readlines(Tail(content), Append(line, Head(content)))

\* line.strip(): the newlines at both ends go
RECURSIVE strip(_)
strip(line) ==
    IF line = <<>> THEN <<>>
    ELSE IF Head(line) = "nl" THEN strip(Tail(line))
    ELSE IF line[Len(line)] = "nl" THEN strip(SubSeq(line, 1, Len(line) - 1))
    ELSE line

EndsWithEND(line) == strip(line) # <<>> /\ strip(line)[Len(strip(line))] = "E"

\* the loop of _remove_blocked_sites over the lines
RECURSIVE filtered_lines(_, _)
filtered_lines(lines, in_flowstate_block) ==
    IF lines = <<>> THEN <<>>
    ELSE IF Contains(Head(lines), flowstate_marker)
         THEN filtered_lines(Tail(lines), ~EndsWithEND(Head(lines)))
         ELSE IF ~in_flowstate_block
              THEN <<Head(lines)>> \o filtered_lines(Tail(lines), FALSE)
              ELSE filtered_lines(Tail(lines), TRUE)

\* f.writelines(lines)
RECURSIVE writelines(_)
writelines(lines) ==
    IF lines = <<>> THEN <<>> ELSE Head(lines) \o writelines(Tail(lines))

_remove_blocked_sites(content) ==
    writelines(filtered_lines(readlines(content, <<>>), FALSE))

InitFlow ==
    /\ tasks = <<>>
    /\ poms = <<>>
    /\ last = [kind |-> "init"]
    /\ acct = NoAccount
    /\ now = 1
    /\ tfile = NoTimerFile
    /\ \E c \in HostsContents :
           dmn = [hosts |-> c, backup |-> <<>>, before |-> c, rounds |-> 0]
    /\ tlast = [op |-> "init"]
    /\ pz = NoPause

\* FlowStateMode.activate; writable is whether the process may write the
\* hosts file
activate(sites, writable) ==
    /\ dmn.rounds < MaxRounds
    /\ IF is_active(dmn.hosts)
       THEN /\ tlast' = [op |-> "activate", ok |-> FALSE,
                         msg |-> "Flow state mode is already active"]
            /\ dmn' = [dmn EXCEPT !.rounds = @ + 1]
       ELSE IF ~writable
       THEN /\ tlast' = [op |-> "activate", ok |-> FALSE,
                         msg |-> "Permission denied"]
            /\ dmn' = [dmn EXCEPT !.backup = dmn.hosts, !.rounds = @ + 1]
       ELSE /\ tlast' = [op |-> "activate", ok |-> TRUE, msg |-> "activated"]
            /\ dmn' = [hosts |-> _add_blocked_sites(dmn.hosts, sites),
                       backup |-> dmn.hosts,
                       before |-> dmn.hosts,
                       rounds |-> dmn.rounds + 1]
    /\ UNCHANGED <<now, tfile, pz, dvars>>

\* FlowStateMode.deactivate
deactivate(writable) ==
    /\ IF ~is_active(dmn.hosts)
       THEN /\ tlast' = [op |-> "deactivate", ok |-> FALSE,
                         msg |-> "Flow state mode is not active"]
            /\ UNCHANGED dmn
       ELSE IF ~writable
       THEN /\ tlast' = [op |-> "deactivate", ok |-> FALSE,
                         msg |-> "Permission denied"]
            /\ UNCHANGED dmn
       ELSE /\ tlast' = [op |-> "deactivate", ok |-> TRUE,
                         msg |-> "deactivated"]
            /\ dmn' = [dmn EXCEPT !.hosts = _remove_blocked_sites(dmn.hosts)]
    /\ UNCHANGED <<now, tfile, pz, dvars>>

NextFlow ==
    \/ \E sites \in 0..MaxSites, writable \in BOOLEAN :
           activate(sites, writable)
    \/ \E writable \in BOOLEAN : deactivate(writable)

SpecFlow == InitFlow /\ [][NextFlow]_vars

(***************************************************************************)
(* Claims.                                                                 *)
(***************************************************************************)
IsCall(op) == last.kind = "call" /\ last.call.op = op

\* C1: at most one task of a user is active after any sequence of local
\* create_task, start_task, complete_task and delete_task calls, and a
\* start_task(t) that succeeded leaves t the only active task of its user.
C1_SingleActiveTask ==
    /\ \A u \in Users : Cardinality(ActiveOf(tasks, u)) <= 1
    /\ (IsCall("start_task") /\ last.raised = "")
          => ActiveOf(tasks, last.user) = {last.call.task_id}

\* start_task(2) succeeded for a user who owns task 1 too
C1_Witness ==
    /\ IsCall("start_task") /\ last.raised = "" /\ last.call.task_id = 2
    /\ DOMAIN tasks = {1, 2}
    /\ tasks[1].user_id = last.user /\ tasks[2].user_id = last.user
    /\ ~tasks[1].is_active /\ tasks[2].is_active

\* C2: with a remote whose every call fails, a hybrid operation gives the
\* result of the same LocalDataManager operation, leaves the local tables as
\* that operation does, and raises nothing the local operation does not raise.
C2_HybridAsLocal ==
    [][(last'.kind = "call" /\ last'.mgr = "hybrid" /\ last'.remote # "ok")
          => LET L == LocalCall(tasks, poms, last'.user, last'.call)
             IN  /\ tasks' = L.tasks
                 /\ poms' = L.poms
                 /\ last'.res = L.res
                 /\ last'.raised = L.raised]_vars

\* C3: a started timer of D seconds that was not paused is reported inactive
\* by every get_status made D seconds or more after the start, whether or not
\* the daemon ticked; get_status never reports a negative remaining_seconds.
C3_ExpiredReportsInactive ==
    /\ (pz.phase = "started" /\ now - pz.at >= pz.duration * ClockRes)
          => ~get_status(tfile, now).active
    /\ get_status(tfile, now).remaining_seconds >= 0

\* get_status answered inactive for an expired countdown that no daemon tick
\* had completed: the state file still says active
C3_Witness ==
    /\ pz.phase = "started" /\ now - pz.at >= pz.duration * ClockRes
    /\ tfile.active /\ ~tfile.paused
    /\ tlast.op = "get_status" /\ tlast.status = get_status(tfile, now)
    /\ ~tlast.status.active

\* the countdown is over: a daemon tick completed it, or get_status says so
ReachedZero == ~tfile.active \/ ~get_status(tfile, now).active

\* C4: a timer of D seconds paused after e and resumed later reaches zero
\* D - e after the resume, within one second either way, however long the
\* pause lasted (times in clock units, ClockRes of them a second).
C4_PauseResumeConserves ==
    pz.phase = "resumed" =>
        LET left == pz.duration * ClockRes - pz.elapsed
        IN  /\ ReachedZero => now - pz.at >= left - ClockRes
            /\ now - pz.at >= left + ClockRes => ReachedZero

\* a countdown paused part of a second in, resumed after a pause of a second
\* or more, and then seen by get_status both running and over
C4_Witness ==
    /\ pz.phase = "resumed" /\ pz.elapsed % ClockRes # 0
    /\ pz.at - pz.paused_at >= ClockRes
    /\ now - pz.at >= pz.duration * ClockRes - pz.elapsed
    /\ tfile.active
    /\ tlast.op = "get_status" /\ tlast.status = get_status(tfile, now)
    /\ ~tlast.status.active

\* the positions in a run's remote calls of the calls of one kind for one row
CallsFor(calls, apis, id) ==
    {i \in DOMAIN calls : calls[i].api \in apis /\ calls[i].id = id}

TaskErrors(errors) == {i \in DOMAIN errors : errors[i].entity = "Task"}

\* C5: a sync run with n pending tasks of which k fail their remote creation
\* reports tasks_synced = n - k and exactly k task errors, one for each failed
\* local id; the others end with needs_sync false and a cloud_task_id, the
\* failed ones keep needs_sync true.
C5_PartialSync ==
    (last.kind = "sync" /\ last.res.error = "") =>
        /\ last.res.tasks_synced
              = Cardinality(last.pending) - Cardinality(last.failed)
        /\ Cardinality(TaskErrors(last.res.errors)) = Cardinality(last.failed)
        /\ {last.res.errors[i].id : i \in TaskErrors(last.res.errors)}
              = last.failed
        /\ \A id \in last.pending \ last.failed :
              ~tasks[id].needs_sync /\ tasks[id].cloud_task_id # None
        /\ \A id \in last.failed : tasks[id].needs_sync

\* a run over two pending tasks: the creation of the first failed, the second
\* task was synced after it
C5_Witness ==
    /\ last.kind = "sync" /\ last.res.error = ""
    /\ last.pending = {1, 2} /\ last.failed = {1}
    /\ last.res.tasks_synced = 1
    /\ tasks[1].needs_sync /\ ~tasks[2].needs_sync

\* C6: a task synced by one sync run is left alone by a sync run that follows
\* with no command in between: the second run selects it not, issues no remote
\* call for it and changes nothing of it, so the two runs make at most one
\* remote creation call for it, and it was created remotely exactly once.
C6_SyncIdempotent ==
    [][last'.kind = "sync" =>
          \A id \in last'.just_synced :
              /\ id \notin last'.pending
              /\ CallsFor(last'.calls, {"create_task"}, id) = {}
              /\ tasks'[id] = tasks[id]
              /\ Cardinality(CallsFor(last.calls, {"create_task"}, id)) <= 1
              /\ tasks'[id].ncreate = 1]_vars

\* the second of two runs in a row, the first of which created task 1 remotely
C6_Witness ==
    /\ last.kind = "sync" /\ last.res.error = ""
    /\ 1 \in last.just_synced
    /\ last.calls = <<>> /\ last.res.tasks_synced = 0
    /\ tasks[1].ncreate = 1 /\ ~tasks[1].is_completed /\ ~tasks[1].is_active

\* C7: a sync run issues the remote create for a task or pomodoro only while
\* the row has no remote identifier, and no row is created remotely (its
\* create call answered) more than once over local mutations and sync runs.
C7_CreatedOnce ==
    [][last'.kind = "sync" =>
          /\ \A i \in DOMAIN last'.calls :
                /\ last'.calls[i].api = "create_task"
                      => tasks[last'.calls[i].id].cloud_task_id = None
                /\ last'.calls[i].api = "start_pomodoro"
                      => poms[last'.calls[i].id].cloud_pomodoro_id = None
          /\ \A id \in DOMAIN tasks' : tasks'[id].ncreate <= 1
          /\ \A id \in DOMAIN poms' : poms'[id].ncreate <= 1]_vars

\* a run that synced a task completed after its remote creation, and issued
\* no create call for it
C7_Witness ==
    /\ last.kind = "sync" /\ last.res.error = ""
    /\ \E id \in last.pending :
          /\ tasks[id].is_completed /\ tasks[id].ncreate = 1
          /\ ~tasks[id].needs_sync
          /\ CallsFor(last.calls, {"create_task"}, id) = {}

\* C8: needs_sync of a row goes from true to false only in a sync run in
\* which a remote call for that row succeeded.
C8_ClearedOnlyByPush ==
    [][/\ \A id \in DOMAIN tasks \cap DOMAIN tasks' :
             (tasks[id].needs_sync /\ ~tasks'[id].needs_sync) =>
                 /\ last'.kind = "sync"
                 /\ \E i \in CallsFor(last'.calls, {"create_task"}, id) :
                       last'.calls[i].ok
       /\ \A id \in DOMAIN poms \cap DOMAIN poms' :
             (poms[id].needs_sync /\ ~poms'[id].needs_sync) =>
                 /\ last'.kind = "sync"
                 /\ \E i \in CallsFor(last'.calls,
                                      {"start_pomodoro", "complete_pomodoro"}, id) :
                       last'.calls[i].ok]_vars

\* C9: create_task, start_task, complete_task, start_pomodoro and
\* complete_pomodoro of the local manager leave every row they created or
\* changed, the tasks start_task deactivated among them, and the row they
\* were called for, with needs_sync true, whether or not it was synced before.
C9_MutationsFlagged ==
    [][(last'.kind = "call" /\ last'.via = "local" /\ last'.raised = "") =>
          /\ \A id \in DOMAIN tasks' :
                (id \notin DOMAIN tasks \/ tasks'[id] # tasks[id])
                    => tasks'[id].needs_sync
          /\ \A id \in DOMAIN poms' :
                (id \notin DOMAIN poms \/ poms'[id] # poms[id])
                    => poms'[id].needs_sync
          /\ last'.call.op \in {"start_task", "complete_task"}
                => tasks'[last'.call.task_id].needs_sync
          /\ last'.call.op = "complete_pomodoro"
                => poms'[last'.call.pomodoro_id].needs_sync]_vars

\* start_task(2) after a sync of both tasks, task 1 active: both rows keep
\* their cloud_task_id and are pending again
C9_Witness ==
    /\ IsCall("start_task") /\ last.raised = "" /\ last.call.task_id = 2
    /\ DOMAIN tasks = {1, 2}
    /\ tasks[1].cloud_task_id # None /\ tasks[2].cloud_task_id # None
    /\ ~tasks[1].is_active /\ tasks[1].needs_sync /\ ~tasks[1].is_completed
    /\ tasks[2].is_active /\ tasks[2].needs_sync

\* the error sync_all answers under a mode, probe answer and token
GateError(mode, probe, token) ==
    IF mode = "local" THEN "Cannot sync in local-only mode"
    ELSE IF ~probe THEN "No internet connection"
    ELSE IF ~token THEN "Not authenticated with cloud"
    ELSE ""

\* C10: sync_all answers a distinct error for local-only mode, a failed
\* probe and a missing token, checked in this order, and then issues no task
\* or pomodoro remote call and changes no local row.
C10_SyncShortCircuits ==
    [][last'.kind = "sync" =>
          /\ last'.res.error = GateError(last'.mode, last'.probe, last'.token)
          /\ last'.res.error # "" =>
                /\ last'.calls = <<>>
                /\ tasks' = tasks
                /\ poms' = poms]_vars

\* a run with no token and no connection, rows pending: the probe's error
C10_Witness ==
    /\ last.kind = "sync" /\ last.mode = "hybrid"
    /\ ~last.probe /\ ~last.token
    /\ last.res.error = "No internet connection"
    /\ last.pending # {} /\ \A id \in last.pending : tasks[id].needs_sync
    /\ \E id \in DOMAIN poms : poms[id].needs_sync

\* the state file holds a countdown that is running and not over, or paused
PersistedActive(f, t) ==
    /\ f.exists /\ f.active
    /\ f.paused \/ t - f.start_time < f.duration_seconds * ClockRes

\* C11: start_timer, the daemon alive, fails with 'Timer is already running'
\* and writes nothing when the persisted timer is running or paused and not
\* over; otherwise it succeeds and the persisted state is active, not paused,
\* with remaining_seconds = duration_seconds = the minutes asked for.
C11_StartOnlyFromIdle ==
    [][(tlast'.op = "start_timer" /\ tlast'.msg # "Failed to start timer daemon")
          => IF PersistedActive(tfile, now)
             THEN /\ ~tlast'.ok /\ tlast'.msg = "Timer is already running"
                  /\ tfile' = tfile
             ELSE /\ tlast'.ok
                  /\ tfile'.exists /\ tfile'.active /\ ~tfile'.paused
                  /\ tfile'.start_time = now
                  /\ tfile'.remaining_seconds = tfile'.duration_seconds
                  /\ \E m \in 1..MaxMinutes :
                        tfile'.duration_seconds = m * SecondsPerMinute]_vars

\* start_timer refused while a countdown is paused
C11_Witness ==
    /\ tlast.op = "start_timer" /\ ~tlast.ok
    /\ tlast.msg = "Timer is already running"
    /\ tfile.active /\ tfile.paused /\ pz.phase = "paused"

\* a pass of the daemon's loop: no command, no time passing
TickStep == tlast'.op = "none" /\ now' = now /\ dmn.pc = "sleep"

\* what the loop's decrement leaves of the countdown of the state file
TickRemaining(f, t) == Max0(f.duration_seconds - IntElapsed(t, f.start_time)) - 1

\* C12: a daemon tick that finds a running countdown at zero leaves the
\* persisted state with active = false, however long after the tick before.
C12_TickCompletes ==
    [][(/\ TickStep
        /\ tfile.exists /\ tfile.active /\ ~tfile.paused
        /\ TickRemaining(tfile, now) <= 0)
          => ~tfile'.active]_vars

HasId(c) ==
    c.op \in {"start_task", "complete_task", "delete_task", "complete_pomodoro"}

\* the id the call names is no row of the user in the local store
NotFoundAt(T, P, u, c) ==
    \/ /\ c.op \in {"start_task", "complete_task", "delete_task"}
       /\ ~Owned(T, u, c.task_id)
    \/ /\ c.op = "complete_pomodoro"
       /\ ~(c.pomodoro_id \in DOMAIN P /\ P[c.pomodoro_id].user_id = u)

NotFoundErrors == {"Task not found", "Pomodoro not found", "HTTP 404"}

\* C14: under every manager a call naming an id that is no row of the user
\* raises a not-found error, distinct from the error of a failed request, and
\* changes nothing; in hybrid mode a call the remote service answered with
\* not-found is not applied to the local store.
C14_NotFoundSurfaced ==
    [][(last'.kind = "call" /\ HasId(last'.call)) =>
          /\ (last'.via = "local"
                /\ NotFoundAt(tasks, poms, last'.user, last'.call))
                => /\ last'.raised \in NotFoundErrors
                   /\ tasks' = tasks /\ poms' = poms
          /\ last'.remote = "not_found"
                => /\ last'.raised \in NotFoundErrors
                   /\ tasks' = tasks /\ poms' = poms]_vars


\* C15: in cloud mode every remote failure propagates to the caller: no
\* operation of the CloudDataManager, get_active_task included, answers a
\* failed request with a normal result.
C15_CloudPropagates ==
    [][(last'.kind = "call" /\ last'.mgr = "cloud" /\ last'.remote # "ok")
          => last'.raised # ""]_vars

\* the number of calls of a backend among the steps of one operation
Count(steps, backend) ==
    Cardinality({i \in DOMAIN steps : steps[i] = backend})

\* C16: one operation of the hybrid manager calls the cloud backend at most
\* once and only after should_use_cloud answered yes, calls the local backend
\* at most once and only if the cloud was not used or its call raised, never
\* calls the local backend after a cloud call that returned, and hands a
\* local error to the caller without another attempt.
C16_HybridCallsOnce ==
    [][(last'.kind = "call" /\ last'.mgr = "hybrid") =>
          LET s == last'.steps
              cloud == CloudCall(last'.call, last'.remote)
              local == LocalCall(tasks, poms, last'.user, last'.call)
          IN  /\ Count(s, "cloud") <= 1
              /\ Count(s, "local") <= 1
              /\ Count(s, "cloud") = 1 => should_use_cloud("hybrid", last'.probe).use
              /\ Count(s, "local") = 1 =>
                    \/ Count(s, "cloud") = 0
                    \/ s = <<"cloud", "local">> /\ cloud.raised # ""
              /\ (Count(s, "cloud") = 1 /\ cloud.raised = "") =>
                    /\ s = <<"cloud">>
                    /\ UNCHANGED <<tasks, poms>>
              /\ (Count(s, "local") = 1 /\ local.raised # "") =>
                    last'.raised = local.raised]_vars

\* the cloud call raised, the one local call raised too and its error is
\* the answer of the operation
C16_Witness ==
    /\ last.kind = "call" /\ last.mgr = "hybrid"
    /\ last.steps = <<"cloud", "local">>
    /\ last.remote = "failed"
    /\ last.raised = "Task not found"

\* C17: should_use_cloud answers false in local mode and true in cloud mode,
\* in both without a connectivity probe; in hybrid mode it makes one probe and
\* answers true exactly when the probe met HTTP 200, false when it met any
\* other status, an error or a timeout; the operation then calls the cloud
\* backend exactly when the answer was true.
C17_ShouldUseCloud ==
    last.kind = "hybrid call" =>
        /\ last.mode = "local" => (~last.use_cloud /\ last.probes = 0)
        /\ last.mode = "cloud" => (last.use_cloud /\ last.probes = 0)
        /\ last.mode = "hybrid" =>
              /\ last.probes = 1
              /\ last.use_cloud <=> last.net = "200"
        /\ last.probes = 0 <=> last.net = "no probe"
        /\ last.use_cloud <=> Count(last.steps, "cloud") = 1

\* hybrid mode, the probe ended in an error: the answer is false, nothing is
\* raised and the operation ran on the local backend
C17_Witness ==
    /\ last.kind = "hybrid call" /\ last.mode = "hybrid"
    /\ last.net = "error"
    /\ ~last.use_cloud
    /\ last.steps = <<"local">>
    /\ last.raised = ""

\* C18: after any sequence of local create_task, start_task and
\* complete_task calls no task is both completed and active.
C18_CompletedNotActive ==
    \A id \in DOMAIN tasks : ~(tasks[id].is_completed /\ tasks[id].is_active)

\* C19: a termination signal that reaches the daemon in its loop, between
\* two passes or between the load and the save of one, with the timer idle,
\* running or paused, leaves no state file, no timer active and no pid file,
\* and ends the process; and after a stop_daemon that returned success the
\* pid file is absent.
C19_SignalClears ==
    /\ (tlast.op \in {"signal", "stop_daemon"} /\ tlast.ok
          /\ tlast.at \in {"sleep", "loaded"})
          => /\ ~tfile.exists
             /\ ~get_status(tfile, now).active
             /\ dmn.pid_file = "absent"
             /\ dmn.pc = "none"
    /\ (tlast.op = "stop_daemon" /\ tlast.ok) => dmn.pid_file = "absent"

\* the signal met the daemon between the load and the save of a pass, the
\* countdown running
C19_Witness ==
    /\ tlast.op = "signal" /\ tlast.at = "loaded" /\ tlast.from = "running"
    /\ ~tfile.exists

\* C20: with no daemon process and a pid file that names a dead process or
\* cannot be parsed, is_daemon_running answers false and removes the file;
\* start_timer then takes the daemon as not running and spawns one: it ends
\* with the new daemon registered, or with the failure of start_daemon.
C20_StaleMarker ==
    [][(dmn.pc = "none" /\ dmn.pid_file \in {"stale", "empty"}) =>
          /\ tlast'.op = "daemon_status" =>
                (~tlast'.ok /\ dmn'.pid_file = "absent")
          /\ tlast'.op = "start_timer" =>
                \/ /\ dmn'.pc = "sleep" /\ dmn'.pid_file = "daemon"
                   /\ tlast'.msg \in {"Started", "Timer is already running"}
                \/ /\ tlast'.msg = "Failed to start timer daemon"
                   /\ dmn'.pid_file = "absent"]_vars

\* start_timer found the pid file of a dead daemon and a new one registered
C20_Witness ==
    /\ tlast.op = "start_timer" /\ tlast.found = "stale"
    /\ dmn.pc = "sleep" /\ dmn.pid_file = "daemon"

PomCallsFor(calls, id) ==
    SelectSeq(calls, LAMBDA c :
        c.api \in {"start_pomodoro", "complete_pomodoro"} /\ c.id = id)

\* C23: for a pending pomodoro without remote identifier a sync run issues
\* the remote start call first; if the row is completed and the start call
\* succeeded it stores the identifier returned and then issues the remote
\* complete call for that identifier, and marks the row synced only after
\* that call succeeded; for a row that is not completed the start call is
\* the only call.
C23_PomCreateThenComplete ==
    [][(last'.kind = "sync" /\ last'.res.error = "") =>
          \A id \in ToCreatePoms(poms, last'.user) :
              LET cs == PomCallsFor(last'.calls, id)
              IN  /\ Len(cs) >= 1
                  /\ cs[1].api = "start_pomodoro"
                  /\ IF cs[1].ok /\ poms[id].completed
                     THEN /\ Len(cs) = 2
                          /\ cs[2].api = "complete_pomodoro"
                          /\ poms'[id].cloud_pomodoro_id # None
                          /\ cs[2].arg = poms'[id].cloud_pomodoro_id
                          /\ ~poms'[id].needs_sync <=> cs[2].ok
                     ELSE /\ Len(cs) = 1
                          /\ ~poms'[id].needs_sync <=> cs[1].ok]_vars

\* a run that pushed a completed pomodoro: start, then complete, then synced
C23_Witness ==
    /\ last.kind = "sync" /\ last.res.error = ""
    /\ \E id \in DOMAIN poms :
          /\ poms[id].completed /\ ~poms[id].needs_sync
          /\ Len(PomCallsFor(last.calls, id)) = 2
          /\ PomCallsFor(last.calls, id)[2].api = "complete_pomodoro"
          /\ PomCallsFor(last.calls, id)[2].arg = poms[id].cloud_pomodoro_id

\* the columns of a task and of a pomodoro that sync has no business with
TaskContent(t) ==
    <<t.user_id, t.description, t.is_active, t.is_completed, t.completed_at>>

PomContent(p) ==
    <<p.user_id, p.task_id, p.session_type, p.duration_minutes, p.completed,
      p.completed_at>>

C25_StatusRecomputed ==
    [][/\ (tlast'.op = "get_status" /\ tfile.exists /\ ~tfile.malformed
             /\ tfile.active) =>
             IF tfile.paused
             THEN tlast'.status = [active |-> TRUE, paused |-> TRUE,
                                   remaining_seconds |-> tfile.remaining_seconds]
             ELSE tlast'.status.active =>
                     /\ ~tlast'.status.paused
                     /\ tlast'.status.remaining_seconds =
                           Max({0, tfile.duration_seconds
                                     - ((now - tfile.start_time) \div ClockRes)})
       /\ (now' # now /\ tfile.exists /\ ~tfile.malformed /\ tfile.active
             /\ tfile.paused) =>
             get_status(tfile', now') = get_status(tfile, now)]_vars

\* a status that differs from the countdown value of the state file
C25_Witness ==
    /\ tlast.op = "get_status" /\ tlast.status.active /\ ~tlast.status.paused
    /\ tfile.exists /\ ~tfile.malformed
    /\ tlast.status.remaining_seconds # tfile.remaining_seconds
    /\ tlast.status.remaining_seconds > 0

\* C26: once a local operation has run, exactly one user record exists, the
\* configured local_user_id is its id, every operation worked for it, and
\* only the first operation of the installation created a user.
C26_OneLocalUser ==
    /\ Cardinality(DOMAIN acct.users) <= 1
    /\ (last.kind \in {"local", "restart"}) =>
          /\ Cardinality(DOMAIN acct.users) = 1
          /\ acct.local_user_id \in DOMAIN acct.users
          /\ acct.current_user_id \in {None, acct.local_user_id}
          /\ \A id \in DOMAIN tasks : tasks[id].user_id = acct.local_user_id
    /\ last.kind = "local" =>
          /\ last.user = acct.local_user_id
          /\ last.created # {} => DOMAIN tasks \subseteq {1}

\* a new process, after a restart, ran an operation on the task an earlier
\* process had created, for the same user
C26_Witness ==
    /\ last.kind = "local" /\ last.call.op = "complete_task"
    /\ last.raised = "" /\ last.created = {}
    /\ DOMAIN tasks = {1, 2}
    /\ acct.local_user_id = 1 /\ DOMAIN acct.users = {1}

\* the errors of a result that stand for a whole phase
PhaseErrors(errors, entity) ==
    {i \in DOMAIN errors : errors[i] = PhaseError(entity)}

C28_CompletesOnce == pz.rings <= 1

\* C29: a stop_timer or pause_timer that reported success is not undone by a
\* pass of the daemon that loaded the state before the command wrote it and
\* saves after: since a successful stop, and until the next start_timer, the
\* state file holds no active timer; since a successful pause, and until the
\* next pause or stop, it holds a paused one.
C29_CommandsStick ==
    /\ pz.phase = "none" => ~(tfile.exists /\ tfile.active)
    /\ pz.phase = "paused" => (tfile.exists /\ tfile.active /\ tfile.paused)

\* C30: a local pomodoro that is completed and not pending is linked to a
\* remote pomodoro that received a successful complete call, also when it
\* was completed after its first sync run and when the complete call of the
\* run that created it remotely failed.
C30_CompletedIsPushed ==
    \A id \in DOMAIN poms :
        (poms[id].completed /\ ~poms[id].needs_sync)
            => (poms[id].cloud_pomodoro_id # None /\ poms[id].rcomplete)

\* C31: the remote start call of a sync run for a pomodoro that names a local
\* task carries the remote identifier of that task (its cloud_task_id), not
\* the local id; for a pomodoro without a task it carries no task.
C31_PomTaskRemoteId ==
    [][(last'.kind = "sync" /\ last'.res.error = "") =>
          \A i \in DOMAIN last'.calls :
              last'.calls[i].api = "start_pomodoro" =>
                  LET t == poms[last'.calls[i].id].task_id
                  IN  IF t = None THEN last'.calls[i].arg = None
                      ELSE t \in DOMAIN tasks' =>
                              last'.calls[i].arg = tasks'[t].cloud_task_id]_vars

\* C32: after a sync run that answered counts and an empty list of errors no
\* task and no pomodoro of the user is pending, and each of them that was
\* pending before the run carries a remote identifier.
C32_CleanRunLeavesNonePending ==
    (last.kind = "sync" /\ last.res.error = "" /\ last.res.errors = <<>>) =>
        /\ \A id \in DOMAIN tasks :
              tasks[id].user_id = last.user =>
                  /\ ~tasks[id].needs_sync
                  /\ id \in last.pending => tasks[id].cloud_task_id # None
        /\ \A id \in DOMAIN poms :
              poms[id].user_id = last.user =>
                  /\ ~poms[id].needs_sync
                  /\ id \in last.pending_poms => poms[id].cloud_pomodoro_id # None

\* a run without errors that had a task and a pomodoro pending, the pomodoro
\* with a remote identifier from an earlier run
C32_Witness ==
    /\ last.kind = "sync" /\ last.res.error = "" /\ last.res.errors = <<>>
    /\ last.pending # {} /\ last.pending_poms # {}
    /\ last.calls # <<>>
    /\ \E id \in last.pending_poms : PomCallsFor(last.calls, id) = <<>>

\* C33: start_task of the local manager with a task id that does not exist
\* or belongs to another user raises "Task not found" and leaves every task
\* as it was: the active task stays active and no needs_sync flag changes.
C33_StartTaskNotFound ==
    [][(/\ last'.kind = "call" /\ last'.mgr = "local"
        /\ last'.call.op = "start_task"
        /\ ~Owned(tasks, last'.user, last'.call.task_id))
          => (last'.raised = "Task not found" /\ tasks' = tasks /\ poms' = poms)]_vars

\* a start_task that named the task of another user while the caller had an
\* active task
C33_Witness ==
    /\ last.kind = "call" /\ last.mgr = "local"
    /\ last.call.op = "start_task" /\ last.raised = "Task not found"
    /\ last.call.task_id \in DOMAIN tasks
    /\ tasks[last.call.task_id].user_id # last.user
    /\ \E id \in ActiveOf(tasks, last.user) : TRUE

\* the ids of the tasks a call answered
IdsOf(res) == {res[i].id : i \in DOMAIN res}

\* C34: after a complete_task(t) of the local manager that succeeded, t is
\* completed and not active; get_tasks without include_completed omits t and
\* get_tasks with it contains t; if t was the active task get_active_task
\* answers none; get_tasks answers tasks of the calling user only.
C34_CompleteTaskThenLists ==
    [][(/\ last'.kind = "call" /\ last'.mgr = "local"
        /\ last'.call.op = "complete_task" /\ last'.raised = "")
          => LET t == last'.call.task_id
                 u == last'.user
             IN  /\ tasks'[t].is_completed /\ ~tasks'[t].is_active
                 /\ t \notin IdsOf(L_get_tasks(tasks', poms', u, FALSE).res)
                 /\ t \in IdsOf(L_get_tasks(tasks', poms', u, TRUE).res)
                 /\ tasks[t].is_active =>
                       L_get_active_task(tasks', poms', u).res = <<>>
                 /\ \A b \in BOOLEAN :
                       \A id \in IdsOf(L_get_tasks(tasks', poms', u, b).res) :
                           tasks'[id].user_id = u]_vars

\* a complete_task that succeeded while the other user had a task too, so
\* that get_tasks has a row to leave out
C34_Witness ==
    /\ last.kind = "call" /\ last.mgr = "local"
    /\ last.call.op = "complete_task" /\ last.raised = ""
    /\ tasks[last.call.task_id].is_completed
    /\ \E id \in DOMAIN tasks : tasks[id].user_id # last.user
    /\ L_get_active_task(tasks, poms, last.user).res = <<>>

\* C35: every state file the program wrote holds a countdown value within
\* its duration: 0 <= remaining_seconds <= duration_seconds.
C35_RemainingInRange ==
    (tfile.exists /\ ~tfile.malformed) =>
        (0 <= tfile.remaining_seconds
           /\ tfile.remaining_seconds <= tfile.duration_seconds)

\* a countdown that was paused and resumed and that a pass of the daemon has
\* decremented since
C35_Witness ==
    /\ tfile.exists /\ tfile.active /\ ~tfile.paused
    /\ pz.phase = "resumed"
    /\ 0 < tfile.remaining_seconds
    /\ tfile.remaining_seconds < tfile.duration_seconds

\* C36: at most one timer daemon process is alive, and a pid file that holds
\* a process id holds that of the daemon alive, also when two commands call
\* start_daemon at the same time with no daemon running.
C36_OneDaemon ==
    /\ Cardinality({d \in Daemons : dmn.procs[d] # "none"}) <= 1
    /\ dmn.pid_file \in Daemons => dmn.procs[dmn.pid_file] # "none"

\* C37: pom start records a pomodoro only after daemon.start_timer answered
\* success: where the start is rejected (a timer is running, the daemon
\* failed to start) no record is tried and no pomodoro row appears; where the
\* record fails the timer that was started stays as started.
C37_RecordAfterTimerStart ==
    [][(last'.kind = "pom_start" /\ tlast'.op = "pom_start") =>
          /\ ~tlast'.ok =>
                /\ tlast'.record = "not tried"
                /\ poms' = poms /\ tasks' = tasks
                /\ tlast'.msg \in {"Timer is already running",
                                   "Failed to start timer daemon"}
          /\ tlast'.was_active => ~tlast'.ok
          /\ tlast'.ok =>
                /\ tlast'.record \in {"recorded", "failed"}
                /\ tfile'.exists /\ tfile'.active /\ ~tfile'.paused
                /\ tfile'.start_time = now
                /\ tfile'.remaining_seconds = PomoDuration * SecondsPerMinute
                /\ tlast'.record = "failed" => poms' = poms
                /\ (tlast'.record = "recorded" /\ tlast'.via = "local") =>
                      DOMAIN poms' = DOMAIN poms \cup {NextId(DOMAIN poms)}]_vars

\* a pom start whose timer started and whose record failed, after one that
\* had recorded its pomodoro
C37_Witness ==
    /\ tlast.op = "pom_start" /\ tlast.ok /\ tlast.record = "failed"
    /\ tfile.active
    /\ DOMAIN poms # {}

\* C38: remaining_seconds of the running in-process timer decreases by at
\* most 1 per second, also after stop() and start() within the sleep of the
\* countdown thread of the stopped timer.
C38_OneDecrementPerSecond == dmn.decs <= 1

\* C39: activate followed by deactivate is a round trip on the hosts file:
\* after a successful deactivate the content is exactly the content before
\* the activate, and is_active is false again
C39_ActivateDeactivateRoundTrip ==
    (tlast.op = "deactivate" /\ tlast.ok)
        => /\ dmn.hosts = dmn.before
           /\ ~is_active(dmn.hosts)
=============================================================================
